---- MODULE Spec2Model ----
(***************************************************************************)
(* Event propagation service of the calendar backend                       *)
(* (backend/app/services/event_service.py) over the persistence model of   *)
(* backend/app/models/models.py.                                           *)
(*                                                                         *)
(* The state is the committed content of the database.  One action is one  *)
(* call of a service function or endpoint, run in one session: whatever    *)
(* the call has committed (db.commit()) stays, and when the call raises,   *)
(* everything it wrote after its last commit is rolled back.               *)
(***************************************************************************)
EXTENDS Integers, Sequences, FiniteSets, Bags, TLC

VARIABLES events, calendars, calendar_list, next_id, steps, last, reminders,
          rec_in, rec_out, acl, acl_out, now, jobs, pool, notification_log,
          thread, alive, failures, txs, env

vars == <<events, calendars, calendar_list, next_id, steps, last, reminders,
          rec_in, rec_out, acl, acl_out, now, jobs, pool, notification_log,
          thread, alive, failures, txs, env>>

\* the arguments and the outcome of the last recurrence expansion
rec_vars == <<rec_in, rec_out>>
\* the CalendarACL table and the last permission evaluation
acl_vars == <<acl, acl_out>>
\* the clock, the scheduler's job store and its running state, the jobs
\* handed to the executor, the NotificationLog table, the position of the
\* calling thread inside a reminder_service call, and the NotificationLog
\* inserts that failed (job id and time)
sched_vars == <<now, jobs, pool, notification_log, thread, alive, failures>>
\* the transactions of update calls that are under way at the same time, and
\* the counters of the environment's episode with the outcome of its last
\* step
run_vars == <<txs, env>>

----------------------------------------------------------------------------
(* Bounds of the model *)

\* total number of Event rows ever persisted (row ids 1..MaxEvents)
MaxEvents == 3
\* length of payload["attendees"]
MaxAttendees == 2
\* number of calls in a run
MaxSteps == 3

----------------------------------------------------------------------------
(* The world: User rows, e-mail addresses, column values *)

\* e-mail addresses of the User rows (User.email is unique: the e-mail
\* stands for the user's id)
Users == {"o", "a"}
\* "x" is an address that matches no User
Emails == Users \cup {"x"}

\* Event.iCalUID is nullable: 0 stands for None
None == 0
\* a NULL in a string column
Null == "null"

NEEDS_ACTION == "needsAction"
ACCEPTED == "accepted"
DECLINED == "declined"
TENTATIVE == "tentative"
AttendeeResponseStatus == {NEEDS_ACTION, DECLINED, TENTATIVE, ACCEPTED}

CONFIRMED == "confirmed"
CANCELLED == "cancelled"

\* keys update_event never applies
ImmutableKeys == {"id", "calendar_id", "iCalUID", "created_at"}

\* the columns create_event copies from the organizer's row into each copy
PropagatedFields == {"summary", "description", "start", "end", "location",
                     "status", "is_all_day", "recurrence"}

----------------------------------------------------------------------------
(* Sequence helpers *)

Range(s) == {s[i] : i \in DOMAIN s}

SeqsUpTo(S, n) == UNION {[1..k -> S] : k \in 0..n}

\* index of the first element of s that satisfies P, 0 when there is none:
\* Query.first() over rows in insertion order
FirstIndex(s, P(_)) ==
    IF \E i \in DOMAIN s : P(s[i])
    THEN CHOOSE i \in DOMAIN s : P(s[i]) /\ \A j \in 1..(i-1) : ~P(s[j])
    ELSE 0

----------------------------------------------------------------------------
(* The database as one value *)

DB(ev, cals, cl) == [events |-> ev, calendars |-> cals, calendar_list |-> cl]

\* variant: the table has no unique index on (calendar_id, iCalUID)
UniqueViolation_no_index(ev, row) == FALSE

\* Index("idx_calendar_icaluid", "calendar_id", "iCalUID", unique=True):
\* inserting row violates the index when a row with the same calendar and the
\* same non-null iCalUID is there (NULLs never collide in a unique index)
UniqueViolation(ev, row) ==
    /\ row.iCalUID # None
    /\ \E r \in ev : r.calendar_id = row.calendar_id /\ r.iCalUID = row.iCalUID

\* nullable=False columns of Event that a payload can leave empty
NotNullViolation(row) == row.summary = Null

----------------------------------------------------------------------------
(* create_event *)

\* dict.get(key, default)
Get(d, key, default) == IF key \in DOMAIN d THEN d[key] ELSE default

\* generate_ical_uid(): a uuid4-based string, fresh at every call; the
\* model takes the fresh row id of the organizer's row
generate_ical_uid(fresh) == fresh

\* an EventAttendee row, as far as the propagation reads and writes it
EventAttendee(email, status, is_organizer) ==
    [email |-> email, response_status |-> status, is_organizer |-> is_organizer]

\* all_attendees: the organizer's entry followed by one entry per payload
\* attendee, in payload order
all_attendees(organizer_email, attendees_data) ==
    <<EventAttendee(organizer_email, ACCEPTED, TRUE)>> \o
    [i \in DOMAIN attendees_data |->
        EventAttendee(attendees_data[i], NEEDS_ACTION, FALSE)]

\* the organizer's Event row built from the payload; created_at is the
\* column default utc_now, a logical time that grows with every insert;
\* organizer_id is not among the arguments of Event(...) and stays NULL
organizer_event(id, calendar_id, ical_uid, organizer_email, payload, attendees_data) ==
    [id          |-> id,
     calendar_id |-> calendar_id,
     iCalUID     |-> ical_uid,
     created_at  |-> id,
     summary     |-> Get(payload, "summary", Null),
     description |-> Get(payload, "description", Null),
     start       |-> Get(payload, "start", 0),
     end         |-> Get(payload, "end", 0),
     location    |-> Get(payload, "location", Null),
     status      |-> Get(payload, "status", CONFIRMED),
     is_all_day  |-> Get(payload, "is_all_day", FALSE),
     recurrence  |-> Get(payload, "recurrence", Null),
     organizer_id |-> Null,
     attendees   |-> all_attendees(organizer_email, attendees_data)]

\* variant: a copy carries the organizer's entry only, not the full roster
attendee_event_organizer_only(id, calendar_id, org) ==
    [org EXCEPT !.id = id, !.calendar_id = calendar_id, !.created_at = id,
                !.attendees = SubSeq(@, 1, 1)]

\* the copy in an attendee's calendar: same iCalUID, the organizer row's
\* fields, the full roster
attendee_event(id, calendar_id, org) ==
    [org EXCEPT !.id = id, !.calendar_id = calendar_id, !.created_at = id]

\* get_or_create_user_calendar: the calendar of the user's first primary
\* CalendarListEntry; when there is none a calendar and a primary entry are
\* inserted and the session is committed
NewCalendarId(db) == Cardinality(db.calendars) + 1

get_or_create_user_calendar(db, user_id) ==
    LET idx == FirstIndex(db.calendar_list,
                  LAMBDA e : e.user_id = user_id /\ e.is_primary)
        cid == NewCalendarId(db)
    IN IF idx # 0
       THEN [calendar_id |-> db.calendar_list[idx].calendar_id,
             db |-> db, committed |-> FALSE]
       ELSE [calendar_id |-> cid,
             db |-> [db EXCEPT
                       !.calendars = @ \cup {[id |-> cid, owner_id |-> user_id]},
                       !.calendar_list = Append(@,
                           [user_id |-> user_id, calendar_id |-> cid,
                            is_primary |-> TRUE])],
             committed |-> TRUE]

\* variant: the user lookup never matches, no attendee gets a copy
attendee_user_never(email) == FALSE

\* db.query(User).filter(User.email == email).first() is not None
attendee_user(email) == email \in Users

\* one pass of the copy loop for attendees_data[i]; st carries the session's
\* view (work), the last committed database (committed), the next free row
\* id in each, and whether a flush has failed
copy_for_attendee(st, email, org) ==
    IF st.failed \/ ~attendee_user(email) THEN st
    ELSE LET g    == get_or_create_user_calendar(st.work, email)
             com  == IF g.committed THEN g.db ELSE st.committed
             cn   == IF g.committed THEN st.n ELSE st.cn
             copy == attendee_event(st.n, g.calendar_id, org)
         IN IF UniqueViolation(g.db.events, copy)
            THEN [work |-> com, committed |-> com, n |-> cn, cn |-> cn,
                  failed |-> TRUE]
            ELSE [work |-> [g.db EXCEPT !.events = @ \cup {copy}],
                  committed |-> com, n |-> st.n + 1, cn |-> cn,
                  failed |-> FALSE]

RECURSIVE copy_loop(_, _, _, _)
copy_loop(i, attendees_data, org, st) ==
    IF i > Len(attendees_data) THEN st
    ELSE copy_loop(i + 1, attendees_data, org,
                   copy_for_attendee(st, attendees_data[i], org))

\* create_event(db, calendar_id, organizer_email, payload): the result is the
\* database the call leaves, whether it returned (ok) and the next free row id
create_event(db, fresh, calendar_id, organizer_email, payload, attendees_data) ==
    LET ical_uid == generate_ical_uid(fresh)
        org == organizer_event(fresh, calendar_id, ical_uid, organizer_email,
                               payload, attendees_data)
    IN IF NotNullViolation(org) \/ UniqueViolation(db.events, org)
       THEN [ok |-> FALSE, err |-> "not null", db |-> db, next_id |-> fresh,
             iCalUID |-> ical_uid]
       ELSE LET st == copy_loop(1, attendees_data, org,
                        [work |-> [db EXCEPT !.events = @ \cup {org}],
                         committed |-> db, n |-> fresh + 1, cn |-> fresh,
                         failed |-> FALSE])
            IN [ok |-> ~st.failed,
                err |-> IF st.failed THEN "unique" ELSE "",
                db |-> st.work, next_id |-> st.n, iCalUID |-> ical_uid]

----------------------------------------------------------------------------
(* update_event *)

\* db.query(Event).filter(Event.id == event_id).first()
EventById(ev, event_id) ==
    IF \E r \in ev : r.id = event_id
    THEN {CHOOSE r \in ev : r.id = event_id}
    ELSE {}

\* hasattr(event, key): the mapped attributes of Event
hasattr(row, key) == key \in DOMAIN row

\* variant: the loop applies every key the row has, immutable ones too
apply_updates_no_exclusion(row, updates) ==
    [key \in DOMAIN row |->
        IF key \in DOMAIN updates THEN updates[key] ELSE row[key]]

\* the loop "for key, value in updates.items(): setattr(...)" on one row
apply_updates(row, updates) ==
    [key \in DOMAIN row |->
        IF key \in DOMAIN updates /\ hasattr(row, key) /\ key \notin ImmutableKeys
        THEN updates[key]
        ELSE row[key]]

\* setattr(event, "attendees", value) raises unless every element of value
\* is a mapped EventAttendee object; the empty list is accepted and orphans
\* the rows of the old roster
setattr_raises(updates) ==
    "attendees" \in DOMAIN updates /\ updates["attendees"] # <<>>

\* variant: only the addressed row is written, siblings are left stale
rows_to_update_addressed_only(ev, ical_uid, event_id) ==
    {r \in ev : r.id = event_id}

\* the rows update_event writes: the addressed row and every other row with
\* its iCalUID
rows_to_update(ev, ical_uid, event_id) ==
    {r \in ev : r.id = event_id \/ (r.iCalUID = ical_uid /\ r.id # event_id)}

\* variant: a missing iCalUID is let through as a local-only update
has_ical_uid_unchecked(ical_uid) == TRUE

\* "if not ical_uid: raise ValueError(... has no iCalUID ...)"
has_ical_uid(ical_uid) == ical_uid # None

update_event(ev, event_id, updates) ==
    LET found == EventById(ev, event_id) IN
    IF found = {}
    THEN [ok |-> FALSE, err |-> "not found", events |-> ev]
    ELSE LET row      == CHOOSE r \in found : TRUE
             ical_uid == row.iCalUID
             targets  == rows_to_update(ev, ical_uid, event_id)
             written  == {apply_updates(r, updates) : r \in targets}
         IN IF ~has_ical_uid(ical_uid)
            THEN [ok |-> FALSE, err |-> "no iCalUID", events |-> ev]
            ELSE IF setattr_raises(updates)
            THEN [ok |-> FALSE, err |-> "setattr", events |-> ev]
            ELSE IF \E r \in written : NotNullViolation(r)
            THEN [ok |-> FALSE, err |-> "integrity", events |-> ev]
            ELSE [ok |-> TRUE, err |-> "", events |-> (ev \ targets) \cup written]

----------------------------------------------------------------------------
(* update_attendee_response *)

\* db.query(EventAttendee).filter(event_id == .., email == ..).first():
\* index into the row's roster, 0 for None
attendee_record(row, attendee_email) ==
    FirstIndex(row.attendees, LAMBDA a : a.email = attendee_email)

\* variant: a missing attendee record is not reported
attendee_missing_unchecked(row, attendee_email) == FALSE

\* "if not attendee_record: raise ValueError(... not found on event ...)"
attendee_missing(row, attendee_email) == attendee_record(row, attendee_email) = 0

\* variant: the e-mail filter is lost, every entry of the roster is set
set_response_every_entry(row, attendee_email, response_status) ==
    [row EXCEPT !.attendees =
        [i \in DOMAIN @ |-> [@[i] EXCEPT !.response_status = response_status]]]

\* set response_status on the first entry for the e-mail, when there is one
set_response(row, attendee_email, response_status) ==
    LET i == attendee_record(row, attendee_email) IN
    IF i = 0 THEN row
    ELSE [row EXCEPT !.attendees[i].response_status = response_status]

\* variant: the response stays on the addressed copy
all_event_copies_none(ev, ical_uid, event_id) == {}

\* the other rows update_attendee_response visits
all_event_copies(ev, ical_uid, event_id) ==
    {r \in ev : r.iCalUID = ical_uid /\ r.id # event_id}

update_attendee_response(ev, event_id, attendee_email, response_status) ==
    LET found == EventById(ev, event_id) IN
    IF found = {}
    THEN [ok |-> FALSE, err |-> "not found", events |-> ev]
    ELSE LET row      == CHOOSE r \in found : TRUE
             ical_uid == row.iCalUID
             targets  == {row} \cup all_event_copies(ev, ical_uid, event_id)
         IN IF ~has_ical_uid(ical_uid)
            THEN [ok |-> FALSE, err |-> "no iCalUID", events |-> ev]
            ELSE IF attendee_missing(row, attendee_email)
            THEN [ok |-> FALSE, err |-> "attendee not found", events |-> ev]
            ELSE [ok |-> TRUE, err |-> "",
                  events |-> (ev \ targets) \cup
                      {set_response(r, attendee_email, response_status) :
                          r \in targets}]

----------------------------------------------------------------------------
(* Recurrence expander (backend/app/utils/recurrence.py) *)

\* Instants are integers on one time line (naive datetimes, as the Event
\* columns hold them), counted in half days: timedelta(days=1)
Day == 2

\* sorted(S)
RECURSIVE SortedSeq(_)
SortedSeq(S) ==
    IF S = {} THEN <<>>
    ELSE LET m == CHOOSE x \in S : \A y \in S : x <= y
         IN <<m>> \o SortedSeq(S \ {m})

\* The text of an RRULE by its parts: FREQ, INTERVAL, COUNT.  freq = ""
\* is a text without a FREQ part; EmptyText is the empty string.
Rule(freq, interval, count) ==
    [freq |-> freq, interval |-> interval, count |-> count]
EmptyText == Rule("", 0, 0)

\* One line of the recurrence field: its prefix ("RRULE:", "EXDATE:",
\* "RDATE:" or none), then a rule text or comma-separated date tokens.
\* BlankLine is a line that is empty after strip().
Line(prefix, rule, dates) == [prefix |-> prefix, rule |-> rule, dates |-> dates]
BlankLine == Line("", EmptyText, <<>>)

\* A date token by its form: "datetime" is YYYYMMDDTHHMMSS (a trailing Z is
\* dropped) and denotes the instant at; "date" is YYYYMMDD and denotes
\* midnight of day at; "junk" is text no parser accepts
Token(form, at) == [form |-> form, at |-> at]

\* parse_exdates: the instants of the tokens of one EXDATE line; tokens that
\* do not parse are skipped
parse_exdates(dates) ==
    {dates[i].at : i \in {j \in DOMAIN dates : dates[j].form = "datetime"}}
    \cup
    {dates[i].at * Day : i \in {j \in DOMAIN dates : dates[j].form = "date"}}

\* parse_rdates: the same parsing for one RDATE line
parse_rdates(dates) ==
    {dates[i].at : i \in {j \in DOMAIN dates : dates[j].form = "datetime"}}
    \cup
    {dates[i].at * Day : i \in {j \in DOMAIN dates : dates[j].form = "date"}}

\* rrule.rrulestr("DTSTART:...\nRRULE:<text>"): the library builds the rule
\* from the parts of the text.  A part it cannot read (FREQ=INVALID) is a
\* ValueError; a text without FREQ reaches the rrule constructor without
\* its required freq argument, which is a TypeError.
rrulestr(rule) ==
    IF rule.freq = "DAILY" THEN ""
    ELSE IF rule.freq = "" THEN "TypeError"
    ELSE "ValueError"

\* parse_rrule_string: what it raises ("" when it returns the rule).  The
\* empty text is refused first; ValueError and AttributeError of the
\* library are raised again as ValueError; anything else passes through.
parse_rrule_string(rule) ==
    IF rule = EmptyText THEN "ValueError"
    ELSE IF rrulestr(rule) \in {"ValueError", "AttributeError"} THEN "ValueError"
    ELSE rrulestr(rule)

\* the occurrences of a parsed rule anchored at dtstart: FREQ=DAILY with
\* INTERVAL and COUNT
rrule_occurrences(rule, dtstart) ==
    {dtstart + j * rule.interval * Day : j \in 0..(rule.count - 1)}

\* rrule_obj.between(after, before, inc=True), in ascending order
between(rule, dtstart, after, before) ==
    SortedSeq({t \in rrule_occurrences(rule, dtstart) : after <= t /\ t <= before})

\* "line.startswith('RRULE:') or (not line.startswith('EXDATE:') and not
\* line.startswith('RDATE:'))"
is_rule_line(line) ==
    line.prefix = "RRULE:" \/ (line.prefix # "EXDATE:" /\ line.prefix # "RDATE:")

\* the loop over the lines of the recurrence field; st holds rrule_obj (a
\* sequence of at most one rule, the last one parsed), exdates, rdates and
\* the exception that ended the loop
RECURSIVE parse_lines(_, _, _)
parse_lines(i, recurrence_field, st) ==
    IF i > Len(recurrence_field) \/ st.raises # "" THEN st
    ELSE LET line == recurrence_field[i] IN
         IF line = BlankLine
         THEN parse_lines(i + 1, recurrence_field, st)
         ELSE IF is_rule_line(line)
         THEN IF parse_rrule_string(line.rule) # ""
              THEN [st EXCEPT !.raises = parse_rrule_string(line.rule)]
              ELSE parse_lines(i + 1, recurrence_field,
                               [st EXCEPT !.rrule_obj = <<line.rule>>])
         ELSE IF line.prefix = "EXDATE:"
         THEN parse_lines(i + 1, recurrence_field,
                  [st EXCEPT !.exdates = @ \cup parse_exdates(line.dates)])
         ELSE parse_lines(i + 1, recurrence_field,
                  [st EXCEPT !.rdates = @ \cup parse_rdates(line.dates)])

\* "if len(rule_occurrences) > max_instances: rule_occurrences[:max_instances]"
truncate(rule_occurrences, max_instances) ==
    IF Len(rule_occurrences) > max_instances
    THEN SubSeq(rule_occurrences, 1, max_instances)
    ELSE rule_occurrences

\* variant: an excluded instant that is also an RDATE is kept
combine_rdate_wins(rule_occurrences, rdates, exdates) ==
    (Range(rule_occurrences) \ exdates) \cup rdates

\* occurrences.update(rule_occurrences); occurrences.update(rdates);
\* occurrences -= exdates
combine(rule_occurrences, rdates, exdates) ==
    (Range(rule_occurrences) \cup rdates) \ exdates

\* variant: the filter uses the extended window of the expansion
in_window_extended(dt, window_start, window_end) ==
    window_start - Day <= dt /\ dt <= window_end + Day

\* "window_start <= dt <= window_end"
in_window(dt, window_start, window_end) ==
    window_start <= dt /\ dt <= window_end

\* expand_recurrence: raises is "" when a list is returned
expand_recurrence(event_start, recurrence_field, window_start, window_end, max_instances) ==
    IF recurrence_field = <<>>
    THEN [raises |-> "",
          value |-> IF in_window(event_start, window_start, window_end)
                    THEN <<event_start>> ELSE <<>>]
    ELSE LET st == parse_lines(1, recurrence_field,
                       [rrule_obj |-> <<>>, exdates |-> {}, rdates |-> {},
                        raises |-> ""])
             rule_occurrences ==
                 IF st.rrule_obj = <<>> THEN <<>>
                 ELSE truncate(between(st.rrule_obj[1], event_start,
                                       window_start - Day, window_end + Day),
                               max_instances)
             occurrences == combine(rule_occurrences, st.rdates, st.exdates)
         IN IF st.raises # ""
            THEN [raises |-> st.raises, value |-> <<>>]
            ELSE [raises |-> "",
                  value |-> SortedSeq({dt \in occurrences :
                               in_window(dt, window_start, window_end)})]

\* no expansion has run
NoExpansion ==
    [op |-> "none", event_start |-> 0, recurrence_field |-> <<>>,
     window_start |-> 0, window_end |-> 0, max_instances |-> 0,
     calendar_id |-> 0]
NoResult == [raises |-> "", value |-> <<>>]

----------------------------------------------------------------------------
(* Listing with recurrence expansion (GET /calendars/{id}/events) *)

\* default of expand_recurrence's max_instances
DefaultMaxInstances == 1000

\* the entries one event contributes to the listing: its occurrences in the
\* window as virtual instances, or the stored event itself when it has no
\* recurrence ("if event.recurrence": None and the empty list alike, both
\* held as <<>> here) or when the expansion raised ("except Exception": the
\* error is printed and the original event is appended)
listed_entries(event, start, end) ==
    LET r == expand_recurrence(event.start, event.recurrence, start, end,
                               DefaultMaxInstances)
        original == <<[id |-> event.id, start |-> event.start,
                       instance |-> FALSE]>>
    IN IF event.recurrence = <<>>
       THEN original
       ELSE IF r.raises # ""
       THEN original
       ELSE [i \in DOMAIN r.value |->
                [id |-> event.id, start |-> r.value[i], instance |-> TRUE]]

\* the rows of the query, in insertion order, turned into entries
RECURSIVE expanded_events(_, _, _, _)
expanded_events(ids, ev, start, end) ==
    IF ids = <<>> THEN <<>>
    ELSE listed_entries(CHOOSE r \in ev : r.id = Head(ids), start, end)
         \o expanded_events(Tail(ids), ev, start, end)

\* get_calendar_events with start, end and expand_recurring=True
get_calendar_events(ev, cals, calendar_id, start, end) ==
    IF ~\E c \in cals : c.id = calendar_id
    THEN [raises |-> "404", value |-> <<>>]
    ELSE LET query == {r \in ev : /\ r.calendar_id = calendar_id
                                  /\ r.start <= end /\ r.end >= start}
         IN [raises |-> "",
             value |-> expanded_events(SortedSeq({r.id : r \in query}),
                                       ev, start, end)]

----------------------------------------------------------------------------
(* Access control (backend/app/services/acl_service.py) *)

OWNER == "owner"
WRITER == "writer"
READER == "reader"
FREE_BUSY_READER == "freeBusyReader"
CalendarRole == {OWNER, WRITER, READER, FREE_BUSY_READER}

\* get_user_role's None
NoRole == "none"

ROLE_HIERARCHY ==
    [role \in CalendarRole |->
        CASE role = OWNER -> 4
          [] role = WRITER -> 3
          [] role = READER -> 2
          [] role = FREE_BUSY_READER -> 1]

\* ROLE_HIERARCHY.get(role, 0)
get_role_level(role) ==
    IF role \in DOMAIN ROLE_HIERARCHY THEN ROLE_HIERARCHY[role] ELSE 0

\* the tables a permission evaluation reads
ACLDB(cals, rows) == [calendars |-> cals, acl |-> rows]

\* db.query(Calendar).filter(Calendar.id == calendar_id).first()
CalendarById(db, calendar_id) == {c \in db.calendars : c.id = calendar_id}

\* db.query(User).filter(User.id == user_id).first(), and the e-mail of
\* that row
UserById(user_id) == {u \in Users : u = user_id}
user_email(user_id) == user_id

\* variant: the owner is treated like any other subject
is_owner_never(calendar, user_id) == FALSE

\* "if calendar.owner_id == user_id"
is_owner(calendar, user_id) == calendar.owner_id = user_id

\* variant: the grantee's row on any calendar is taken
acl_entry_any_calendar(db, calendar_id, email) ==
    IF \E a \in db.acl : a.grantee = email
    THEN {CHOOSE a \in db.acl : a.grantee = email}
    ELSE {}

\* db.query(CalendarACL).filter(calendar_id == .., grantee == user.email)
\* .first(): at most one row, by the unique index on (calendar_id, grantee)
acl_entry(db, calendar_id, email) ==
    {a \in db.acl : a.calendar_id = calendar_id /\ a.grantee = email}

\* variant: without a row the subject is still a freeBusyReader
no_acl_entry_free_busy(required_role) == required_role = FREE_BUSY_READER

\* "if not acl_entry: return False"
no_acl_entry(required_role) == FALSE

\* variant: the granted role must be the required one
role_satisfies_exact(user_role, required_role) ==
    get_role_level(user_role) = get_role_level(required_role)

\* "return user_role_level >= required_role_level"
role_satisfies(user_role, required_role) ==
    get_role_level(user_role) >= get_role_level(required_role)

check_permission(db, user_id, calendar_id, required_role) ==
    LET calendar == CalendarById(db, calendar_id)
        entry == acl_entry(db, calendar_id, user_email(user_id))
    IN IF calendar = {} THEN FALSE
       ELSE IF is_owner(CHOOSE c \in calendar : TRUE, user_id) THEN TRUE
       ELSE IF UserById(user_id) = {} THEN FALSE
       ELSE IF entry = {} THEN no_acl_entry(required_role)
       ELSE role_satisfies((CHOOSE a \in entry : TRUE).role, required_role)

get_user_role(db, user_id, calendar_id) ==
    LET calendar == CalendarById(db, calendar_id)
        entry == acl_entry(db, calendar_id, user_email(user_id))
    IN IF calendar = {} THEN NoRole
       ELSE IF is_owner(CHOOSE c \in calendar : TRUE, user_id) THEN OWNER
       ELSE IF UserById(user_id) = {} THEN NoRole
       ELSE IF entry = {} THEN NoRole
       ELSE (CHOOSE a \in entry : TRUE).role

\* no permission has been evaluated
NoEvaluation ==
    [op |-> "none", user_id |-> "", calendar_id |-> 0, required_role |-> "",
     allowed |-> FALSE, role |-> ""]

----------------------------------------------------------------------------
(* Reminders (backend/app/services/reminder_service.py) *)

POPUP == "popup"
EMAIL == "email"
ReminderMethod == {POPUP, EMAIL}

\* default of default_reminder.get("minutes", 30)
DefaultMinutes == 30

\* the calling thread is outside reminder_service
Idle ==
    [pc |-> "idle", op |-> "", event_id |-> 0, then |-> "", snapshot |-> {},
     todo |-> {}, read_now |-> 0, err |-> ""]

\* event.reminders: the Reminder rows of the event
event_reminders(rem, event_id) == {m \in rem : m.event_id = event_id}

\* the CalendarListEntry of the calendar's owner for the event's calendar
\* (.first(); the unique index on (user_id, calendar_id) leaves one at most)
owner_entry(cals, cl, calendar_id) ==
    {cl[i] : i \in {k \in DOMAIN cl :
                      \E c \in cals : /\ c.id = calendar_id
                                      /\ cl[k].calendar_id = c.id
                                      /\ cl[k].user_id = c.owner_id}}

\* the reminders of the entry's default_reminders JSON array
default_reminders(cals, cl, calendar_id) ==
    UNION {{[method |-> Get(d, "method", POPUP),
             minutes_before |-> Get(d, "minutes", DefaultMinutes),
             origin |-> "default"] :
               d \in Range(Get(entry, "default_reminders", <<>>))} :
           entry \in owner_entry(cals, cl, calendar_id)}

\* the event-level reminders
override_reminders(rem, event_id) ==
    {[method |-> m.method, minutes_before |-> m.minutes_before,
      origin |-> "event"] : m \in event_reminders(rem, event_id)}

\* variant: the calendar defaults are added to the event-level reminders
get_event_reminders_merged(rem, cals, cl, event) ==
    override_reminders(rem, event.id) \cup
    default_reminders(cals, cl, event.calendar_id)

\* get_event_reminders(db, event): the event-level reminders if there are
\* any, the calendar owner's defaults otherwise; origin records which of the
\* two branches produced the entry
get_event_reminders(rem, cals, cl, event) ==
    IF event_reminders(rem, event.id) # {}
    THEN override_reminders(rem, event.id)
    ELSE default_reminders(cals, cl, event.calendar_id)

\* event.start - timedelta(minutes=minutes_before)
scheduled_time(event, minutes_before) == event.start - minutes_before

\* variant: every reminder is scheduled, whatever its time
is_past_never(at, read_now) == FALSE

\* "if scheduled_time <= now: continue"
is_past(at, read_now) == at <= read_now

\* f"reminder_{event.id}_{method.value}_{minutes_before}"
job_id(event_id, method, minutes_before) ==
    <<event_id, method, minutes_before>>

\* job.id.startswith(f"reminder_{event_id}_"): Event.id is a uuid, every
\* prefix has the same length and ends the id's first component
has_prefix(id, event_id) == id[1] = event_id

\* event.calendar.owner_id if event.calendar else None
calendar_owner(cals, calendar_id) ==
    IF \E c \in cals : c.id = calendar_id
    THEN (CHOOSE c \in cals : c.id = calendar_id).owner_id
    ELSE Null

\* the job of add_job: id, trigger date and the args of send_notification;
\* origin and read_now record the branch of get_event_reminders and the
\* "now" of the schedule_reminders call that made the job
Job(event, cals, r, read_now) ==
    [id |-> job_id(event.id, r.method, r.minutes_before),
     run_date |-> scheduled_time(event, r.minutes_before),
     user_id |-> calendar_owner(cals, event.calendar_id),
     event_summary |-> event.summary,
     event_start |-> event.start,
     origin |-> r.origin,
     read_now |-> read_now]

\* scheduler.add_job(..., id=job_id, replace_existing=True)
add_job(js, job) == {j \in js : j.id # job.id} \cup {job}

\* scheduler.remove_job(job.id): JobLookupError when no stored job has the id
remove_job(js, id) ==
    IF \E j \in js : j.id = id
    THEN [err |-> "", jobs |-> {j \in js : j.id # id}]
    ELSE [err |-> "JobLookupError", jobs |-> js]

\* the ids of get_jobs() that cancel_event_reminders goes on to remove
jobs_to_cancel(js, event_id) == {j.id : j \in {k \in js : has_prefix(k.id, event_id)}}

\* variant: reschedule_reminders goes straight to scheduling
reschedule_without_cancel == "schedule"

\* reschedule_reminders: cancel_event_reminders first
reschedule_first == "get_jobs"

\* cancel_event_reminders(event_id) with no job firing in between
cancel_event_reminders(js, event_id) ==
    {j \in js : j.id \notin jobs_to_cancel(js, event_id)}

\* the loop of schedule_reminders over the reminders still to do
RECURSIVE schedule_loop(_, _, _, _, _)
schedule_loop(todo, js, event, cals, read_now) ==
    IF todo = {} THEN js
    ELSE LET r == CHOOSE x \in todo : TRUE
         IN schedule_loop(todo \ {r},
               IF is_past(scheduled_time(event, r.minutes_before), read_now)
               THEN js
               ELSE add_job(js, Job(event, cals, r, read_now)),
               event, cals, read_now)

\* schedule_reminders(db, event) with no job firing in between
schedule_reminders(js, rem, cals, cl, event, read_now) ==
    schedule_loop(get_event_reminders(rem, cals, cl, event), js, event, cals,
                  read_now)

\* reschedule_reminders(db, event) with no job firing in between
reschedule_reminders(js, rem, cals, cl, event, read_now) ==
    schedule_reminders(IF reschedule_first = "get_jobs"
                       THEN cancel_event_reminders(js, event.id) ELSE js,
                       rem, cals, cl, event, read_now)

\* the NotificationLog row of send_notification
NotificationLog(job, sent_time) ==
    [event_id |-> job.id[1],
     user_id |-> job.user_id,
     reminder_method |-> job.id[2],
     minutes_before |-> job.id[3],
     scheduled_time |-> job.run_date,
     sent_time |-> sent_time,
     event_summary |-> job.event_summary,
     event_start |-> job.event_start,
     origin |-> job.origin,
     read_now |-> job.read_now]

\* variant: the exception of the insert leaves the job function and stops
\* the scheduler
after_failed_insert_propagates(running) == FALSE

\* "except Exception as e: logger.error(...); db.rollback()"
after_failed_insert(running) == running

\* NotificationLog.event_id is declared ForeignKey("events.id",
\* ondelete="CASCADE"): when the database enforces foreign keys the rows of
\* a deleted event go with it
delete_log_cascade(log, ev_after, enforced) ==
    IF enforced
    THEN SelectSeq(log, LAMBDA n : \E r \in ev_after : r.id = n.event_id)
    ELSE log

----------------------------------------------------------------------------
(* Sessions and the environment's episode *)

\* the sessions in which two update calls run at the same time
Transactions == {"t1", "t2"}

\* a session in which no call has begun
NoTransaction ==
    [pc |-> "idle", event_id |-> 0, updates |-> <<>>, loaded |-> {},
     locked |-> {}, autoflush |-> FALSE]
NoTransactions == [t \in Transactions |-> NoTransaction]

\* GoogleCalendarEnv before reset(): self.step_count = 0,
\* self.episode_reward = 0.0, self.db = None; no step has returned
NoEpisode ==
    [step_count |-> 0, episode_reward |-> 0, reward |-> 0, success |-> FALSE,
     done |-> FALSE, action |-> "", returned |-> FALSE, session |-> "none"]

----------------------------------------------------------------------------
(* Inputs *)

\* create payloads: the required keys only, and one without summary
PayloadMin == [summary |-> "s1", start |-> 1, end |-> 2]
PayloadNoSummary == [start |-> 1, end |-> 2]
Payloads == {PayloadMin, PayloadNoSummary}

\* organizer_email of a create call
Organizers == {"o"}

\* payload["attendees"]: every list of at most MaxAttendees addresses,
\* repetitions and the organizer's own address included
AttendeeLists == SeqsUpTo(Emails, MaxAttendees)

\* response_status of an update_attendee_response call
Responses == {ACCEPTED, DECLINED}

\* updates maps: every propagated field together with the immutable keys
\* and a key Event does not have; one field alone; a NULL for a NOT NULL
\* column; the attendees key with an empty list and with a list of dicts
UpdateAll ==
    [summary |-> "s2", description |-> "d", start |-> 2, end |-> 3,
     location |-> "l", status |-> CANCELLED, is_all_day |-> TRUE,
     recurrence |-> "r", id |-> 9, calendar_id |-> 9, iCalUID |-> 9,
     created_at |-> 9, bogus |-> 1]
UpdateMaps ==
    { UpdateAll,
      [summary |-> "s1"],
      [summary |-> Null],
      [attendees |-> <<>>],
      [summary |-> "s2", attendees |-> <<[email |-> "x"]>>] }

EventIds == 1..MaxEvents

\* request bodies of POST /events/{event_id}/reminders
ReminderLists == {<<[method |-> "popup", minutes_before |-> 30]>>}

----------------------------------------------------------------------------
(* State machine *)

\* last: the call that produced the current state and how it ended
NoCall ==
    [op |-> "init", ok |-> TRUE, err |-> "", id |-> 0, iCalUID |-> None,
     calendar_id |-> 0, organizer_email |-> "", attendees |-> <<>>,
     email |-> "", status |-> "", updates |-> <<>>]

\* the seeded database: user "o" owns a personal calendar (1, with a primary
\* CalendarListEntry) and a shared calendar (2); user "a" has no calendar yet
Init ==
    /\ events = {}
    /\ calendars = {[id |-> 1, owner_id |-> "o"], [id |-> 2, owner_id |-> "o"]}
    /\ calendar_list =
          <<[user_id |-> "o", calendar_id |-> 1, is_primary |-> TRUE]>>
    /\ next_id = 1
    /\ steps = 0
    /\ last = NoCall
    /\ reminders = {}
    /\ rec_in = NoExpansion
    /\ rec_out = NoResult
    /\ acl = {}
    /\ acl_out = NoEvaluation
    /\ now = 0
    /\ jobs = {}
    /\ pool = EmptyBag
    /\ notification_log = <<>>
    /\ thread = Idle
    /\ alive = TRUE
    /\ failures = <<>>
    /\ txs = NoTransactions
    /\ env = NoEpisode

\* create_event(db, calendar_id, organizer_email, payload)
CreateEvent(calendar_id, organizer_email, payload, attendees_data) ==
    LET res == create_event(DB(events, calendars, calendar_list), next_id,
                            calendar_id, organizer_email, payload,
                            attendees_data)
    IN /\ steps < MaxSteps
       /\ res.next_id <= MaxEvents + 1
       /\ events' = res.db.events
       /\ calendars' = res.db.calendars
       /\ calendar_list' = res.db.calendar_list
       /\ next_id' = res.next_id
       /\ steps' = steps + 1
       /\ last' = IF res.ok
                  THEN [NoCall EXCEPT !.op = "create", !.id = next_id,
                          !.iCalUID = res.iCalUID,
                          !.calendar_id = calendar_id,
                          !.organizer_email = organizer_email,
                          !.attendees = attendees_data]
                  ELSE [NoCall EXCEPT !.op = "create", !.ok = FALSE,
                          !.err = res.err]
       /\ UNCHANGED <<reminders, rec_vars, acl_vars, sched_vars, run_vars>>

\* update_event(db, event_id, updates)
UpdateEvent(event_id, updates) ==
    LET res == update_event(events, event_id, updates)
    IN /\ steps < MaxSteps
       /\ events' = res.events
       /\ steps' = steps + 1
       /\ last' = IF res.ok
                  THEN [NoCall EXCEPT !.op = "update", !.id = event_id,
                          !.updates = updates]
                  ELSE [NoCall EXCEPT !.op = "update", !.ok = FALSE,
                          !.err = res.err, !.id = event_id]
       /\ UNCHANGED <<calendars, calendar_list, next_id, reminders, rec_vars, acl_vars,
                   sched_vars, run_vars>>

\* update_attendee_response(db, event_id, attendee_email, response_status)
UpdateAttendeeResponse(event_id, attendee_email, response_status) ==
    LET res == update_attendee_response(events, event_id, attendee_email,
                                        response_status)
    IN /\ steps < MaxSteps
       /\ events' = res.events
       /\ steps' = steps + 1
       /\ last' = IF res.ok
                  THEN [NoCall EXCEPT !.op = "respond", !.id = event_id,
                          !.email = attendee_email, !.status = response_status]
                  ELSE [NoCall EXCEPT !.op = "respond", !.ok = FALSE,
                          !.err = res.err, !.id = event_id,
                          !.email = attendee_email]
       /\ UNCHANGED <<calendars, calendar_list, next_id, reminders, rec_vars, acl_vars,
                   sched_vars, run_vars>>

\* variant: the delete takes every row of the logical event with it
delete_event_with_siblings(ev, event_id) ==
    {r \in ev : \A d \in EventById(ev, event_id) :
                    r.id # d.id /\ (d.iCalUID = None \/ r.iCalUID # d.iCalUID)}

\* db.delete(event); db.commit(): the Event rows that stay
delete_event(ev, event_id) == ev \ EventById(ev, event_id)

\* the Reminder rows that stay: Event.reminders cascades "all,
\* delete-orphan" (Event.attendees, kept inside the row, cascades alike)
delete_cascade(rem, ev, ev_after) ==
    {m \in rem : \E r \in ev_after : r.id = m.event_id}

\* DELETE /events/{event_id} and the environment's delete_event action
DeleteEvent(event_id) ==
    /\ steps < MaxSteps
    /\ EventById(events, event_id) # {}
    /\ events' = delete_event(events, event_id)
    /\ reminders' = delete_cascade(reminders, events, events')
    /\ steps' = steps + 1
    /\ last' = [NoCall EXCEPT !.op = "delete", !.id = event_id]
    /\ \E enforced \in BOOLEAN :
          notification_log' =
              delete_log_cascade(notification_log, events', enforced)
    /\ UNCHANGED <<calendars, calendar_list, next_id, rec_vars, acl_vars,
                   now, jobs, pool, thread, alive, failures, run_vars>>

\* set_event_reminders(db, event_id, reminders): the Reminder rows of the
\* event are replaced by the rows of the request
set_event_reminders(rem, event_id, rs) ==
    {m \in rem : m.event_id # event_id} \cup
    {[event_id |-> event_id, method |-> rs[i].method,
      minutes_before |-> rs[i].minutes_before] : i \in DOMAIN rs}

\* POST /events/{event_id}/reminders, while no job fires: the rows are
\* replaced and the jobs of the event rescheduled
SetEventReminders(event_id, rs) ==
    /\ steps < MaxSteps
    /\ reminders' = IF EventById(events, event_id) = {}
                     THEN reminders
                     ELSE set_event_reminders(reminders, event_id, rs)
    /\ jobs' = IF EventById(events, event_id) = {}
               THEN jobs
               ELSE reschedule_reminders(jobs, reminders', calendars,
                        calendar_list,
                        CHOOSE r \in EventById(events, event_id) : TRUE, now)
    /\ steps' = steps + 1
    /\ last' = IF EventById(events, event_id) = {}
               THEN [NoCall EXCEPT !.op = "set_reminders", !.ok = FALSE,
                       !.err = "not found", !.id = event_id]
               ELSE [NoCall EXCEPT !.op = "set_reminders", !.id = event_id]
    /\ UNCHANGED <<events, calendars, calendar_list, next_id, rec_vars,
                   acl_vars, now, pool, notification_log, thread, alive,
                   failures, run_vars>>

\* POST /calendars/{calendar_id}/events: one row with the iCalUID of the
\* request body (None by default) and no attendee rows
HttpCreateEvent(calendar_id, payload, ical_uid) ==
    LET row == organizer_event(next_id, calendar_id, ical_uid, "", payload, <<>>)
    IN /\ steps < MaxSteps
       /\ next_id <= MaxEvents
       /\ "summary" \in DOMAIN payload
       /\ payload.end > payload.start
       /\ ~UniqueViolation(events, row)
       /\ events' = events \cup {[row EXCEPT !.attendees = <<>>]}
       /\ next_id' = next_id + 1
       /\ steps' = steps + 1
       /\ last' = [NoCall EXCEPT !.op = "http_create", !.id = next_id,
                     !.calendar_id = calendar_id]
       /\ UNCHANGED <<calendars, calendar_list, reminders, rec_vars, acl_vars,
                   sched_vars, run_vars>>

\* PATCH /events/{event_id}: the times of the request are validated against
\* each other or against the stored row, then the fields of the request are
\* set on the addressed row
http_update_event(ev, event_id, update_data) ==
    LET found == EventById(ev, event_id) IN
    IF found = {}
    THEN [ok |-> FALSE, err |-> "not found", events |-> ev]
    ELSE LET event == CHOOSE r \in found : TRUE
             keys == DOMAIN update_data
             bad_times ==
                 IF "start" \in keys /\ "end" \in keys
                 THEN update_data["end"] <= update_data["start"]
                 ELSE IF "start" \in keys
                 THEN event.end <= update_data["start"]
                 ELSE IF "end" \in keys
                 THEN update_data["end"] <= event.start
                 ELSE FALSE
             written == [k \in DOMAIN event |->
                            IF k \in keys THEN update_data[k] ELSE event[k]]
         IN IF bad_times
            THEN [ok |-> FALSE, err |-> "times", events |-> ev]
            ELSE IF NotNullViolation(written)
            THEN [ok |-> FALSE, err |-> "integrity", events |-> ev]
            ELSE [ok |-> TRUE, err |-> "",
                  events |-> (ev \ {event}) \cup {written}]

HttpUpdateEvent(event_id, update_data) ==
    LET res == http_update_event(events, event_id, update_data)
    IN /\ steps < MaxSteps
       /\ events' = res.events
       /\ steps' = steps + 1
       /\ last' = IF res.ok
                  THEN [NoCall EXCEPT !.op = "http_update", !.id = event_id,
                          !.updates = update_data]
                  ELSE [NoCall EXCEPT !.op = "http_update", !.ok = FALSE,
                          !.err = res.err, !.id = event_id]
       /\ UNCHANGED <<calendars, calendar_list, next_id, reminders, rec_vars, acl_vars,
                   sched_vars, run_vars>>

CalendarIds == {c.id : c \in calendars}

Next ==
    \/ \E c \in CalendarIds, o \in Organizers, p \in Payloads, a \in AttendeeLists :
          CreateEvent(c, o, p, a)
    \/ \E e \in EventIds, u \in UpdateMaps : UpdateEvent(e, u)
    \/ \E e \in EventIds, m \in Emails, s \in Responses :
          UpdateAttendeeResponse(e, m, s)
    \/ \E e \in EventIds : DeleteEvent(e)
    \/ \E e \in EventIds, rs \in ReminderLists : SetEventReminders(e, rs)
    \/ \E c \in CalendarIds, p \in Payloads : HttpCreateEvent(c, p, None)

Spec == Init /\ [][Next]_vars

\* create payloads and update maps that move start and end: an interval that
\* is fine, an empty one and a reversed one; start alone, end alone, both
TimePayloads ==
    { [summary |-> "s1", start |-> 1, end |-> 2],
      [summary |-> "s1", start |-> 2, end |-> 2],
      [summary |-> "s1", start |-> 3, end |-> 1] }
TimeUpdates ==
    { [start |-> 3], [start |-> 0], [end |-> 0], [end |-> 4],
      [start |-> 0, end |-> 1], [start |-> 2, end |-> 1] }

\* event creation and update, through the service and through the endpoints
NextTimes ==
    \/ \E c \in CalendarIds, p \in TimePayloads, a \in {<<>>, <<"a">>} :
          CreateEvent(c, "o", p, a)
    \/ \E c \in CalendarIds, p \in TimePayloads : HttpCreateEvent(c, p, None)
    \/ \E e \in EventIds, u \in TimeUpdates : UpdateEvent(e, u)
    \/ \E e \in EventIds, u \in TimeUpdates : HttpUpdateEvent(e, u)

SpecTimes == Init /\ [][NextTimes]_vars

(* Recurrence expansion as a state machine: the arguments are drawn at the
   start, one call is made *)

\* number of lines of a recurrence field
MaxLines == 3
\* window bounds range over 0..MaxTime
MaxTime == 3

\* lines of a recurrence field: two rules that parse (with and without the
\* RRULE: prefix), a rule with an unknown FREQ, a rule without FREQ, the
\* bare prefix, an EXDATE and an RDATE line with date-time, date-only and
\* unparseable tokens, and a blank line
DirectiveLines ==
    { Line("RRULE:", Rule("DAILY", 1, 2), <<>>),
      Line("", Rule("DAILY", 1, 3), <<>>),
      Line("RRULE:", Rule("INVALID", 1, 2), <<>>),
      Line("RRULE:", Rule("", 1, 2), <<>>),
      Line("RRULE:", EmptyText, <<>>),
      Line("EXDATE:", EmptyText,
           <<Token("datetime", 3), Token("junk", 0), Token("date", 0)>>),
      Line("RDATE:", EmptyText,
           <<Token("datetime", 3), Token("datetime", 0), Token("date", 1)>>),
      BlankLine }

RecurrenceFields == SeqsUpTo(DirectiveLines, MaxLines)

\* anchors of the event
Anchors == {1, 2}

\* max_instances: a cap that bites, and the default
MaxInstances == {1, DefaultMaxInstances}

\* the stored event whose recurrence is expanded: created through the
\* endpoint in calendar 1, one half day long
recurring_event(event_start, recurrence_field) ==
    [organizer_event(1, 1, None, "",
                     [summary |-> "s1", start |-> event_start,
                      end |-> event_start + 1,
                      recurrence |-> recurrence_field], <<>>)
        EXCEPT !.attendees = <<>>]

InitRecurrence ==
    /\ \E event_start \in Anchors, recurrence_field \in RecurrenceFields,
          window_start \in 0..MaxTime, window_end \in 0..MaxTime,
          max_instances \in MaxInstances :
          /\ rec_in = [op |-> "none", event_start |-> event_start,
                       recurrence_field |-> recurrence_field,
                       window_start |-> window_start,
                       window_end |-> window_end,
                       max_instances |-> max_instances,
                       calendar_id |-> 0]
          /\ events = {recurring_event(event_start, recurrence_field)}
    /\ rec_out = NoResult
    /\ calendars = {[id |-> 1, owner_id |-> "o"], [id |-> 2, owner_id |-> "o"]}
    /\ calendar_list =
          <<[user_id |-> "o", calendar_id |-> 1, is_primary |-> TRUE]>>
    /\ next_id = 2
    /\ steps = 0
    /\ last = NoCall
    /\ reminders = {}
    /\ acl = {}
    /\ acl_out = NoEvaluation
    /\ now = 0
    /\ jobs = {}
    /\ pool = EmptyBag
    /\ notification_log = <<>>
    /\ thread = Idle
    /\ alive = TRUE
    /\ failures = <<>>
    /\ txs = NoTransactions
    /\ env = NoEpisode

\* expand_recurrence(event_start, recurrence_field, window_start, window_end,
\* max_instances)
ExpandRecurrence ==
    /\ rec_in.op = "none"
    /\ rec_in' = [rec_in EXCEPT !.op = "expand"]
    /\ rec_out' = expand_recurrence(rec_in.event_start, rec_in.recurrence_field,
                                    rec_in.window_start, rec_in.window_end,
                                    rec_in.max_instances)
    /\ UNCHANGED <<events, calendars, calendar_list, next_id, steps, last,
                   reminders, acl_vars,
                   sched_vars, run_vars>>

\* GET /calendars/{calendar_id}/events?start=..&end=..
GetCalendarEvents(calendar_id) ==
    /\ rec_in.op = "none"
    /\ rec_in' = [rec_in EXCEPT !.op = "list", !.calendar_id = calendar_id]
    /\ rec_out' = get_calendar_events(events, calendars, calendar_id,
                                      rec_in.window_start, rec_in.window_end)
    /\ UNCHANGED <<events, calendars, calendar_list, next_id, steps, last,
                   reminders, acl_vars,
                   sched_vars, run_vars>>

NextRecurrence ==
    \/ ExpandRecurrence
    \/ \E c \in CalendarIds : GetCalendarEvents(c)

SpecRecurrence == InitRecurrence /\ [][NextRecurrence]_vars

(* Sharing as a state machine: grants, revocations and evaluations *)

\* number of CalendarACL rows added by sharing
MaxAcl == 1

\* variant: the share goes ahead whatever rows the grantee has
existing_acl_none(rows, calendar_id, grantee) == {}

\* db.query(CalendarACL).filter(calendar_id == .., grantee == ..).first()
\* in share_calendar and in _action_share_calendar
existing_acl(rows, calendar_id, grantee) ==
    {a \in rows : a.calendar_id = calendar_id /\ a.grantee = grantee}

CalendarACL(calendar_id, grantee, role) ==
    [calendar_id |-> calendar_id, grantee |-> grantee, role |-> role]

\* POST /calendars/{calendar_id}/share: 404 without the calendar, 409 when
\* the grantee has a row on it; otherwise a new CalendarACL row and, for a
\* grantee who is a User without an entry for the calendar, a non-primary
\* CalendarListEntry
share_calendar(cals, rows, cl, calendar_id, grantee, role) ==
    IF ~\E c \in cals : c.id = calendar_id
    THEN [err |-> "not found", acl |-> rows, calendar_list |-> cl]
    ELSE IF existing_acl(rows, calendar_id, grantee) # {}
    THEN [err |-> "conflict", acl |-> rows, calendar_list |-> cl]
    ELSE [err |-> "",
          acl |-> rows \cup {CalendarACL(calendar_id, grantee, role)},
          calendar_list |->
             IF /\ grantee \in Users
                /\ ~\E i \in DOMAIN cl :
                      /\ cl[i].user_id = grantee
                      /\ cl[i].calendar_id = calendar_id
             THEN Append(cl, [user_id |-> grantee, calendar_id |-> calendar_id,
                              is_primary |-> FALSE])
             ELSE cl]

\* the environment's share_calendar action: the grantee must be a User and
\* the role a CalendarRole; only the CalendarACL row is written
action_share_calendar(cals, rows, cl, calendar_id, grantee_email, role) ==
    IF ~\E c \in cals : c.id = calendar_id
    THEN [err |-> "not found", acl |-> rows, calendar_list |-> cl]
    ELSE IF grantee_email \notin Users
    THEN [err |-> "user not found", acl |-> rows, calendar_list |-> cl]
    ELSE IF existing_acl(rows, calendar_id, grantee_email) # {}
    THEN [err |-> "conflict", acl |-> rows, calendar_list |-> cl]
    ELSE IF role \notin CalendarRole
    THEN [err |-> "invalid role", acl |-> rows, calendar_list |-> cl]
    ELSE [err |-> "",
          acl |-> rows \cup {CalendarACL(calendar_id, grantee_email, role)},
          calendar_list |-> cl]

ShareCall(op, res, calendar_id, grantee, role) ==
    [NoCall EXCEPT !.op = op, !.ok = (res.err = ""), !.err = res.err,
                   !.calendar_id = calendar_id, !.email = grantee,
                   !.status = role]

ShareCalendar(calendar_id, grantee, role) ==
    LET res == share_calendar(calendars, acl, calendar_list, calendar_id,
                              grantee, role)
    IN /\ Cardinality(res.acl) <= MaxAcl + 1
       /\ acl' = res.acl
       /\ calendar_list' = res.calendar_list
       /\ last' = ShareCall("share_calendar", res, calendar_id, grantee, role)
       /\ acl_out' = NoEvaluation
       /\ UNCHANGED <<events, calendars, next_id, steps, reminders, rec_vars,
                   sched_vars, run_vars>>

ActionShareCalendar(calendar_id, grantee_email, role) ==
    LET res == action_share_calendar(calendars, acl, calendar_list,
                                     calendar_id, grantee_email, role)
    IN /\ Cardinality(res.acl) <= MaxAcl + 1
       /\ acl' = res.acl
       /\ calendar_list' = res.calendar_list
       /\ last' = ShareCall("action_share_calendar", res, calendar_id,
                            grantee_email, role)
       /\ acl_out' = NoEvaluation
       /\ UNCHANGED <<events, calendars, next_id, steps, reminders, rec_vars,
                   sched_vars, run_vars>>

\* DELETE /calendars/{calendar_id}/acl/{acl_id}: 404 when the row is not one
\* of the calendar, 400 for an owner row; otherwise the row goes
revoke_calendar_access(rows, calendar_id, row) ==
    IF ~(row \in rows /\ row.calendar_id = calendar_id)
    THEN [err |-> "not found", acl |-> rows]
    ELSE IF row.role = OWNER
    THEN [err |-> "owner", acl |-> rows]
    ELSE [err |-> "", acl |-> rows \ {row}]

RevokeCalendarAccess(calendar_id, row) ==
    LET res == revoke_calendar_access(acl, calendar_id, row)
    IN /\ acl' = res.acl
       /\ last' = [NoCall EXCEPT !.op = "revoke_calendar_access",
                                 !.ok = (res.err = ""), !.err = res.err,
                                 !.calendar_id = calendar_id,
                                 !.email = row.grantee, !.status = row.role]
       /\ acl_out' = NoEvaluation
       /\ UNCHANGED <<events, calendars, calendar_list, next_id, steps,
                      reminders, rec_vars,
                   sched_vars, run_vars>>

\* check_permission(db, user_id, calendar_id, required_role)
CheckPermission(user_id, calendar_id, required_role) ==
    /\ acl_out' = [op |-> "check_permission", user_id |-> user_id,
                   calendar_id |-> calendar_id,
                   required_role |-> required_role,
                   allowed |-> check_permission(ACLDB(calendars, acl), user_id,
                                                calendar_id, required_role),
                   role |-> ""]
    /\ last' = NoCall
    /\ UNCHANGED <<events, calendars, calendar_list, next_id, steps,
                   reminders, rec_vars, acl,
                   sched_vars, run_vars>>

\* get_user_role(db, user_id, calendar_id)
GetUserRole(user_id, calendar_id) ==
    /\ acl_out' = [op |-> "get_user_role", user_id |-> user_id,
                   calendar_id |-> calendar_id, required_role |-> "",
                   allowed |-> FALSE,
                   role |-> get_user_role(ACLDB(calendars, acl), user_id,
                                          calendar_id)]
    /\ last' = NoCall
    /\ UNCHANGED <<events, calendars, calendar_list, next_id, steps,
                   reminders, rec_vars, acl,
                   sched_vars, run_vars>>

\* subjects of an evaluation: the users and an id no User row has
Subjects == Users \cup {"x"}

\* a calendar id no Calendar row has
NoCalendarId == 9

\* calendar 1 was created through POST /calendars by "o" (entry on the
\* owner's list, owner row in the ACL); calendar 2 is the primary calendar
\* the propagation service made for "a" (no ACL row)
InitACL ==
    /\ calendars = {[id |-> 1, owner_id |-> "o"], [id |-> 2, owner_id |-> "a"]}
    /\ calendar_list =
          <<[user_id |-> "o", calendar_id |-> 1, is_primary |-> TRUE],
            [user_id |-> "a", calendar_id |-> 2, is_primary |-> TRUE]>>
    /\ acl = {[calendar_id |-> 1, grantee |-> "o", role |-> OWNER]}
    /\ acl_out = NoEvaluation
    /\ events = {}
    /\ next_id = 1
    /\ steps = 0
    /\ last = NoCall
    /\ reminders = {}
    /\ rec_in = NoExpansion
    /\ rec_out = NoResult
    /\ now = 0
    /\ jobs = {}
    /\ pool = EmptyBag
    /\ notification_log = <<>>
    /\ thread = Idle
    /\ alive = TRUE
    /\ failures = <<>>
    /\ txs = NoTransactions
    /\ env = NoEpisode

\* role strings of the environment's action: the roles and one that is none
ActionRoles == CalendarRole \cup {"editor"}

NextACL ==
    \/ \E c \in CalendarIds \cup {NoCalendarId}, g \in Emails,
          r \in CalendarRole : ShareCalendar(c, g, r)
    \/ \E c \in CalendarIds, g \in Emails, r \in ActionRoles :
          ActionShareCalendar(c, g, r)
    \/ \E c \in CalendarIds, row \in acl : RevokeCalendarAccess(c, row)
    \/ \E u \in Subjects, c \in CalendarIds \cup {NoCalendarId},
          r \in CalendarRole : CheckPermission(u, c, r)
    \/ \E u \in Subjects, c \in CalendarIds \cup {NoCalendarId} :
          GetUserRole(u, c)

SpecACL == InitACL /\ [][NextACL]_vars

(* The reminder scheduler as a state machine: the calling thread moves
   through a reminder_service call one scheduler operation at a time, while
   the scheduler's thread hands due jobs to the executor and the executor's
   threads run send_notification *)

\* the last instant of the clock
MaxClock == 3
\* NotificationLog inserts that fail in a run
MaxFailures == 1
\* the calls of a run among which the reminder_service calls are made (the
\* first MaxCalls of its MaxSteps calls)
MaxCalls == 2

\* request bodies of POST /events/{event_id}/reminders: two event-level
\* reminders, and the empty list that puts the event back on the defaults
OverrideLists ==
    { <<[method |-> POPUP, minutes_before |-> 1],
        [method |-> EMAIL, minutes_before |-> 2]>>,
      <<>> }

\* a new start time, for update_event and for PATCH /events/{event_id}
StartUpdates == {[start |-> 4]}

\* an event row without attendees, as POST /calendars/{id}/events makes it
plain_event(id, start) ==
    [organizer_event(id, 1, None, "",
                     [summary |-> "s1", start |-> start, end |-> 5], <<>>)
        EXCEPT !.attendees = <<>>]

\* calendar 1 of user "o", whose list entry has one default reminder, holds
\* two events; no reminder has been scheduled
InitReminders ==
    /\ events = {plain_event(1, 3), plain_event(2, 2)}
    /\ calendars = {[id |-> 1, owner_id |-> "o"]}
    /\ calendar_list =
          <<[user_id |-> "o", calendar_id |-> 1, is_primary |-> TRUE,
             default_reminders |-> <<[method |-> POPUP, minutes |-> 1]>>]>>
    /\ next_id = 3
    /\ steps = 0
    /\ last = NoCall
    /\ reminders = {}
    /\ rec_in = NoExpansion
    /\ rec_out = NoResult
    /\ acl = {}
    /\ acl_out = NoEvaluation
    /\ now = 0
    /\ jobs = {}
    /\ pool = EmptyBag
    /\ notification_log = <<>>
    /\ thread = Idle
    /\ alive = TRUE
    /\ failures = <<>>
    /\ txs = NoTransactions
    /\ env = NoEpisode

\* what a step inside a reminder_service call leaves alone
CallFrame ==
    UNCHANGED <<events, calendars, calendar_list, next_id, rec_vars, acl_vars,
                now, pool, notification_log, alive, failures, run_vars>>

\* the call returns (err = "") or raises
Return(err) ==
    /\ thread' = [Idle EXCEPT !.op = thread.op, !.event_id = thread.event_id,
                              !.read_now = thread.read_now, !.err = err]
    /\ last' = [NoCall EXCEPT !.op = thread.op, !.id = thread.event_id,
                              !.ok = (err = ""), !.err = err]

\* schedule_reminders(db, event) is called
CallScheduleReminders(event_id) ==
    /\ thread.pc = "idle"
    /\ steps < MaxCalls
    /\ EventById(events, event_id) # {}
    /\ thread' = [Idle EXCEPT !.pc = "schedule", !.op = "schedule_reminders",
                              !.event_id = event_id]
    /\ steps' = steps + 1
    /\ UNCHANGED <<jobs, reminders, last>>
    /\ CallFrame

\* cancel_event_reminders(event_id) is called
CallCancelEventReminders(event_id) ==
    /\ thread.pc = "idle"
    /\ steps < MaxCalls
    /\ thread' = [Idle EXCEPT !.pc = "get_jobs",
                              !.op = "cancel_event_reminders",
                              !.event_id = event_id, !.then = "idle"]
    /\ steps' = steps + 1
    /\ UNCHANGED <<jobs, reminders, last>>
    /\ CallFrame

\* reschedule_reminders(db, event) is called
CallRescheduleReminders(event_id) ==
    /\ thread.pc = "idle"
    /\ steps < MaxCalls
    /\ EventById(events, event_id) # {}
    /\ thread' = [Idle EXCEPT !.pc = reschedule_first,
                              !.op = "reschedule_reminders",
                              !.event_id = event_id, !.then = "schedule"]
    /\ steps' = steps + 1
    /\ UNCHANGED <<jobs, reminders, last>>
    /\ CallFrame

\* set_event_reminders(db, event_id, reminders) is called: ValueError
\* without the event; otherwise the Reminder rows are replaced and
\* committed, and the call goes on to reschedule_reminders
CallSetEventReminders(event_id, rs) ==
    /\ thread.pc = "idle"
    /\ steps < MaxCalls
    /\ steps' = steps + 1
    /\ IF EventById(events, event_id) = {}
       THEN /\ thread' = [Idle EXCEPT !.op = "set_event_reminders",
                                      !.event_id = event_id,
                                      !.err = "ValueError"]
            /\ last' = [NoCall EXCEPT !.op = "set_event_reminders",
                                      !.id = event_id, !.ok = FALSE,
                                      !.err = "ValueError"]
            /\ UNCHANGED reminders
       ELSE /\ reminders' = set_event_reminders(reminders, event_id, rs)
            /\ thread' = [Idle EXCEPT !.pc = reschedule_first,
                                      !.op = "set_event_reminders",
                                      !.event_id = event_id,
                                      !.then = "schedule"]
            /\ UNCHANGED last
    /\ UNCHANGED jobs
    /\ CallFrame

\* cancel_event_reminders: jobs = scheduler_instance.get_jobs()
StepGetJobs ==
    /\ thread.pc = "get_jobs"
    /\ LET snapshot == {[id |-> j.id, run_date |-> j.run_date] :
                          j \in {k \in jobs : has_prefix(k.id, thread.event_id)}}
       IN IF snapshot # {}
          THEN /\ thread' = [thread EXCEPT !.pc = "cancel",
                                           !.snapshot = snapshot]
               /\ UNCHANGED last
          ELSE IF thread.then = "idle"
          THEN Return("")
          ELSE /\ thread' = [thread EXCEPT !.pc = thread.then]
               /\ UNCHANGED last
    /\ UNCHANGED <<jobs, reminders, steps>>
    /\ CallFrame

\* cancel_event_reminders: scheduler_instance.remove_job(job.id) for the
\* next job of the list (get_jobs lists by next run time); the
\* JobLookupError of a job that is no longer stored ends the call
StepRemoveJob ==
    /\ thread.pc = "cancel"
    /\ \E s \in thread.snapshot :
          /\ \A t \in thread.snapshot : s.run_date <= t.run_date
          /\ LET res == remove_job(jobs, s.id)
                 rest == thread.snapshot \ {s}
             IN /\ jobs' = res.jobs
                /\ IF res.err # ""
                   THEN Return(res.err)
                   ELSE IF rest # {}
                   THEN /\ thread' = [thread EXCEPT !.snapshot = rest]
                        /\ UNCHANGED last
                   ELSE IF thread.then = "idle"
                   THEN Return("")
                   ELSE /\ thread' = [thread EXCEPT !.pc = thread.then,
                                                    !.snapshot = {}]
                        /\ UNCHANGED last
    /\ UNCHANGED <<reminders, steps>>
    /\ CallFrame

\* schedule_reminders: reminders = get_event_reminders(db, event), the
\* return without reminders, and now = datetime.now()
StepBeginSchedule ==
    /\ thread.pc = "schedule"
    /\ LET event == CHOOSE r \in EventById(events, thread.event_id) : TRUE
           todo == get_event_reminders(reminders, calendars, calendar_list,
                                       event)
       IN IF todo = {}
          THEN Return("")
          ELSE /\ thread' = [thread EXCEPT !.pc = "add_job", !.todo = todo,
                                           !.read_now = now]
               /\ UNCHANGED last
    /\ UNCHANGED <<jobs, reminders, steps>>
    /\ CallFrame

\* schedule_reminders: one round of the loop, which skips a reminder whose
\* time is not after "now" and adds the job of any other
StepAddJob ==
    /\ thread.pc = "add_job"
    /\ \E r \in thread.todo :
          LET event == CHOOSE e \in EventById(events, thread.event_id) : TRUE
              rest == thread.todo \ {r}
          IN /\ jobs' = IF is_past(scheduled_time(event, r.minutes_before),
                                   thread.read_now)
                        THEN jobs
                        ELSE add_job(jobs, Job(event, calendars, r,
                                               thread.read_now))
             /\ IF rest = {}
                THEN Return("")
                ELSE /\ thread' = [thread EXCEPT !.todo = rest]
                     /\ UNCHANGED last
    /\ UNCHANGED <<reminders, steps>>
    /\ CallFrame

\* the jobs whose run date has come
due(js, at) == {j \in js : j.run_date <= at}

\* the clock moves on; a running scheduler has handed over every due job
\* and the executor has run every job handed to it before it does
Tick ==
    /\ now < MaxClock
    /\ alive => (due(jobs, now) = {} /\ pool = EmptyBag)
    /\ now' = now + 1
    /\ UNCHANGED <<events, calendars, calendar_list, next_id, steps, last,
                   reminders, rec_vars, acl_vars, jobs, pool,
                   notification_log, thread, alive, failures, run_vars>>

\* the scheduler's thread wakes up: every due job is handed to the executor
\* and, its DateTrigger having no further run, removed from the job store
Fire ==
    /\ alive
    /\ due(jobs, now) # {}
    /\ pool' = pool (+) SetToBag(due(jobs, now))
    /\ jobs' = jobs \ due(jobs, now)
    /\ UNCHANGED <<events, calendars, calendar_list, next_id, steps, last,
                   reminders, rec_vars, acl_vars, now, notification_log,
                   thread, alive, failures, run_vars>>

\* an executor thread runs send_notification for a job handed to it: the
\* NotificationLog row is inserted and committed, or the insert raises
Run(job, raises) ==
    /\ alive
    /\ BagIn(job, pool)
    /\ raises => Len(failures) < MaxFailures
    /\ pool' = pool (-) SetToBag({job})
    /\ notification_log' = IF raises THEN notification_log
                           ELSE Append(notification_log,
                                       NotificationLog(job, now))
    /\ alive' = IF raises THEN after_failed_insert(alive) ELSE alive
    /\ failures' = IF raises
                   THEN Append(failures, [id |-> job.id, at |-> now])
                   ELSE failures
    /\ UNCHANGED <<events, calendars, calendar_list, next_id, steps, last,
                   reminders, rec_vars, acl_vars, now, jobs, thread,
                   run_vars>>

\* request handlers run one at a time: an update or a delete comes between
\* two reminder_service calls
NextReminders ==
    \/ \E e \in EventIds : CallScheduleReminders(e)
    \/ \E e \in EventIds : CallCancelEventReminders(e)
    \/ \E e \in EventIds : CallRescheduleReminders(e)
    \/ \E e \in EventIds, rs \in OverrideLists : CallSetEventReminders(e, rs)
    \/ StepGetJobs
    \/ StepRemoveJob
    \/ StepBeginSchedule
    \/ StepAddJob
    \/ \E e \in EventIds, u \in StartUpdates :
          thread.pc = "idle" /\ UpdateEvent(e, u)
    \/ \E e \in EventIds, u \in StartUpdates :
          thread.pc = "idle" /\ HttpUpdateEvent(e, u)
    \/ \E e \in EventIds : thread.pc = "idle" /\ DeleteEvent(e)
    \/ Tick
    \/ Fire
    \/ \E j \in BagToSet(pool), raises \in BOOLEAN : Run(j, raises)

SpecReminders == InitReminders /\ [][NextReminders]_vars

\* a running scheduler wakes up for a due job, and the executor runs what
\* it was handed
SpecRemindersLive ==
    /\ SpecReminders
    /\ WF_vars(Fire)
    /\ WF_vars(\E j \in BagToSet(pool), raises \in BOOLEAN : Run(j, raises))

(* Calendars as a state machine: creation, sharing, and the primary
   calendars the propagation makes *)

\* POST /calendars: 404 without the owner; otherwise the Calendar, the
\* owner's CalendarListEntry (is_primary=True) and the owner's ACL row
create_calendar(cals, cl, rows, owner_id) ==
    LET cid == NewCalendarId(DB({}, cals, cl))
    IN IF UserById(owner_id) = {}
       THEN [err |-> "not found", calendars |-> cals, calendar_list |-> cl,
             acl |-> rows, calendar_id |-> 0]
       ELSE [err |-> "",
             calendars |-> cals \cup {[id |-> cid, owner_id |-> owner_id]},
             calendar_list |->
                Append(cl, [user_id |-> owner_id, calendar_id |-> cid,
                            is_primary |-> TRUE]),
             acl |-> rows \cup {CalendarACL(cid, user_email(owner_id), OWNER)},
             calendar_id |-> cid]

CreateCalendar(owner_id) ==
    LET res == create_calendar(calendars, calendar_list, acl, owner_id)
    IN /\ steps < MaxSteps
       /\ calendars' = res.calendars
       /\ calendar_list' = res.calendar_list
       /\ acl' = res.acl
       /\ steps' = steps + 1
       /\ last' = [NoCall EXCEPT !.op = "create_calendar",
                                 !.ok = (res.err = ""), !.err = res.err,
                                 !.calendar_id = res.calendar_id,
                                 !.email = owner_id]
       /\ UNCHANGED <<events, next_id, reminders, rec_vars, acl_out,
                      sched_vars, run_vars>>

\* the users exist; nobody has a calendar yet
InitCalendars ==
    /\ events = {}
    /\ calendars = {}
    /\ calendar_list = <<>>
    /\ next_id = 1
    /\ steps = 0
    /\ last = NoCall
    /\ reminders = {}
    /\ rec_in = NoExpansion
    /\ rec_out = NoResult
    /\ acl = {}
    /\ acl_out = NoEvaluation
    /\ now = 0
    /\ jobs = {}
    /\ pool = EmptyBag
    /\ notification_log = <<>>
    /\ thread = Idle
    /\ alive = TRUE
    /\ failures = <<>>
    /\ txs = NoTransactions
    /\ env = NoEpisode

NextCalendars ==
    \/ \E u \in Subjects : CreateCalendar(u)
    \/ \E c \in CalendarIds, g \in Emails, r \in CalendarRole :
          ShareCalendar(c, g, r)
    \/ \E c \in CalendarIds, o \in Organizers, a \in AttendeeLists :
          CreateEvent(c, o, PayloadMin, a)

SpecCalendars == InitCalendars /\ [][NextCalendars]_vars

(* get_event_reminders as a state machine: the calendar list is drawn at the
   start, the Reminder rows of the events are replaced, and the function is
   applied to an event *)

\* default_reminders values of a CalendarListEntry: two reminders, one
\* reminder that leaves "minutes" to its default, and the empty list
DefaultsTwo ==
    <<[method |-> POPUP, minutes |-> 1], [method |-> EMAIL, minutes |-> 2]>>
DefaultsNoMinutes == <<[method |-> EMAIL]>>

\* calendar lists: calendar 1 is owned by "o" and shared with "a", calendar 2
\* is owned by "a"; an owner's entry has a default_reminders list, an empty
\* one, none (NULL), or the owner has no entry at all
CalendarLists ==
    { <<[user_id |-> "o", calendar_id |-> 1, is_primary |-> TRUE,
         default_reminders |-> DefaultsTwo],
        [user_id |-> "a", calendar_id |-> 1, is_primary |-> FALSE,
         default_reminders |-> DefaultsNoMinutes],
        [user_id |-> "a", calendar_id |-> 2, is_primary |-> TRUE]>>,
      <<[user_id |-> "a", calendar_id |-> 1, is_primary |-> FALSE,
         default_reminders |-> DefaultsTwo],
        [user_id |-> "o", calendar_id |-> 1, is_primary |-> TRUE,
         default_reminders |-> DefaultsNoMinutes],
        [user_id |-> "a", calendar_id |-> 2, is_primary |-> TRUE,
         default_reminders |-> <<>>]>>,
      <<[user_id |-> "a", calendar_id |-> 1, is_primary |-> FALSE,
         default_reminders |-> DefaultsTwo],
        [user_id |-> "a", calendar_id |-> 2, is_primary |-> TRUE,
         default_reminders |-> DefaultsTwo]>> }

\* event 1 on calendar 1 and event 2 on calendar 2, no Reminder rows yet
InitEffective ==
    /\ events = {plain_event(1, 3),
                 [plain_event(2, 2) EXCEPT !.calendar_id = 2]}
    /\ calendars = {[id |-> 1, owner_id |-> "o"], [id |-> 2, owner_id |-> "a"]}
    /\ calendar_list \in CalendarLists
    /\ next_id = 3
    /\ steps = 0
    /\ last = NoCall
    /\ reminders = {}
    /\ rec_in = NoExpansion
    /\ rec_out = NoResult
    /\ acl = {}
    /\ acl_out = NoEvaluation
    /\ now = 0
    /\ jobs = {}
    /\ pool = EmptyBag
    /\ notification_log = <<>>
    /\ thread = Idle
    /\ alive = TRUE
    /\ failures = <<>>
    /\ txs = NoTransactions
    /\ env = NoEpisode

\* reminders = get_event_reminders(db, event)
GetEventReminders(event_id) ==
    /\ EventById(events, event_id) # {}
    /\ thread' = [Idle EXCEPT
                    !.op = "get_event_reminders",
                    !.event_id = event_id,
                    !.todo = get_event_reminders(reminders, calendars,
                                calendar_list,
                                CHOOSE r \in EventById(events, event_id) : TRUE)]
    /\ UNCHANGED <<events, calendars, calendar_list, next_id, steps, last,
                   reminders, rec_vars, acl_vars, now, jobs, pool,
                   notification_log, alive, failures, run_vars>>

NextEffective ==
    \/ \E e \in EventIds, rs \in OverrideLists \cup ReminderLists :
          SetEventReminders(e, rs)
    \/ \E e \in EventIds : GetEventReminders(e)

SpecEffective == InitEffective /\ [][NextEffective]_vars

(* The attendee endpoints of routers/events.py as a state machine, next to
   the propagating create and the PATCH of an event *)

\* POST /events/{event_id}/invite: 404 without the event, 409 when the event
\* has an EventAttendee row with the e-mail; otherwise one row is added to
\* the addressed event
add_event_attendee(ev, event_id, email, response_status, is_organizer) ==
    LET found == EventById(ev, event_id) IN
    IF found = {}
    THEN [ok |-> FALSE, err |-> "not found", events |-> ev]
    ELSE LET event == CHOOSE r \in found : TRUE
         IN IF attendee_record(event, email) # 0
            THEN [ok |-> FALSE, err |-> "conflict", events |-> ev]
            ELSE [ok |-> TRUE, err |-> "",
                  events |-> (ev \ {event}) \cup
                     {[event EXCEPT !.attendees =
                         Append(@, EventAttendee(email, response_status,
                                                 is_organizer))]}]

AddEventAttendee(event_id, email, response_status, is_organizer) ==
    LET res == add_event_attendee(events, event_id, email, response_status,
                                  is_organizer)
    IN /\ steps < MaxSteps
       /\ events' = res.events
       /\ steps' = steps + 1
       /\ last' = [NoCall EXCEPT !.op = "invite", !.ok = res.ok,
                                 !.err = res.err, !.id = event_id,
                                 !.email = email, !.status = response_status]
       /\ UNCHANGED <<calendars, calendar_list, next_id, reminders, rec_vars,
                      acl_vars, sched_vars, run_vars>>

\* the NotificationLog row of respond_to_event: for event.organizer_id, by
\* e-mail, zero minutes before, with the message naming the attendee
\* (display_name or email), the new status and the event's summary
ResponseNotification(event, attendee, at) ==
    [event_id |-> event.id,
     user_id |-> event.organizer_id,
     reminder_method |-> EMAIL,
     minutes_before |-> 0,
     scheduled_time |-> at,
     sent_time |-> at,
     event_summary |-> event.summary,
     event_start |-> event.start,
     message |-> <<attendee.email, attendee.response_status, event.summary>>]

\* "if event.organizer_id:"
has_organizer(event) == event.organizer_id # Null

\* PATCH /events/{event_id}/respond: 404 without the event or without an
\* EventAttendee row of the event for user_email; the fields of the body
\* are set on that row and committed; when response_status was in the body
\* and differs from the old one, and the event has an organizer_id, a
\* NotificationLog row is inserted
respond_to_event(ev, log, event_id, attendee_email, update_data, at) ==
    LET found == EventById(ev, event_id) IN
    IF found = {}
    THEN [ok |-> FALSE, err |-> "not found", events |-> ev, log |-> log]
    ELSE LET event == CHOOSE r \in found : TRUE
             i == attendee_record(event, attendee_email)
         IN IF i = 0
            THEN [ok |-> FALSE, err |-> "attendee not found", events |-> ev,
                  log |-> log]
            ELSE LET old_status == event.attendees[i].response_status
                     attendee ==
                        [event.attendees[i] EXCEPT !.response_status =
                            Get(update_data, "response_status", @)]
                     written == [event EXCEPT !.attendees[i] = attendee]
                 IN [ok |-> TRUE, err |-> "",
                     events |-> (ev \ {event}) \cup {written},
                     log |-> IF /\ "response_status" \in DOMAIN update_data
                                /\ old_status # attendee.response_status
                                /\ has_organizer(event)
                             THEN Append(log, ResponseNotification(event,
                                                 attendee, at))
                             ELSE log]

RespondToEvent(event_id, attendee_email, update_data) ==
    LET res == respond_to_event(events, notification_log, event_id,
                                attendee_email, update_data, now)
    IN /\ steps < MaxSteps
       /\ events' = res.events
       /\ notification_log' = res.log
       /\ steps' = steps + 1
       /\ last' = [NoCall EXCEPT !.op = "http_respond", !.ok = res.ok,
                                 !.err = res.err, !.id = event_id,
                                 !.email = attendee_email,
                                 !.updates = update_data]
       /\ UNCHANGED <<calendars, calendar_list, next_id, reminders, rec_vars,
                      acl_vars, now, jobs, pool, thread, alive, failures, run_vars>>

\* bodies of PATCH /events/{event_id}/respond: a response, and a body that
\* leaves response_status unset
RespondBodies ==
    {[response_status |-> ACCEPTED], [response_status |-> DECLINED],
     [is_optional |-> TRUE]}

\* bodies of PATCH /events/{event_id}: the organizer is set; a field is
\* changed
PatchBodies == {[organizer_id |-> "o"], [summary |-> "s2"]}

NextEndpoints ==
    \/ \E c \in CalendarIds, o \in Organizers, a \in AttendeeLists :
          CreateEvent(c, o, PayloadMin, a)
    \/ \E e \in EventIds, m \in Emails :
          AddEventAttendee(e, m, NEEDS_ACTION, FALSE)
    \/ \E e \in EventIds, m \in Emails, d \in RespondBodies :
          RespondToEvent(e, m, d)
    \/ \E e \in EventIds, m \in Emails, s \in Responses :
          UpdateAttendeeResponse(e, m, s)
    \/ \E e \in EventIds, u \in PatchBodies : HttpUpdateEvent(e, u)

SpecEndpoints == Init /\ [][NextEndpoints]_vars

(* update_event in two sessions at the same time: each call reads the
   addressed row, sets the keys, reads the copies, sets the keys, and
   commits; reads see what is committed at the time of the statement *)

\* the keys of updates whose setattr changed the loaded row: the attributes
\* the unit of work puts into the UPDATE of that row
changed_keys(loaded_row, updates) ==
    {k \in DOMAIN updates :
        /\ hasattr(loaded_row, k) /\ k \notin ImmutableKeys
        /\ loaded_row[k] # updates[k]}

\* the rows of a session that have an UPDATE to flush
dirty(tx) == {r.id : r \in {x \in tx.loaded : changed_keys(x, tx.updates) # {}}}

\* the UPDATE of one row at flush: the changed attributes are written over
\* the row as it is in the table
flush_row(row, tx) ==
    LET loaded_row == CHOOSE x \in tx.loaded : x.id = row.id
    IN [k \in DOMAIN row |->
          IF k \in changed_keys(loaded_row, tx.updates)
          THEN tx.updates[k] ELSE row[k]]

\* rows of ids on which another session holds the lock of an UPDATE it has
\* not committed
locked_by_other(t, ids) ==
    \E u \in Transactions \ {t} : txs[u].locked \cap ids # {}

\* the UPDATE that autoflush emits before the query for the copies
autoflushed(tx) == IF tx.autoflush THEN dirty(tx) ELSE {}

\* update_event up to the first setattr loop: the addressed row is read
\* and the keys are set on it; without the row or its iCalUID the call
\* raises
BeginUpdate(t, event_id, updates) ==
    /\ txs[t].pc = "idle"
    /\ LET found == EventById(events, event_id)
       IN txs' = [txs EXCEPT ![t] =
             IF found = {} \/ \E r \in found : ~has_ical_uid(r.iCalUID)
             THEN [@ EXCEPT !.pc = "raised", !.event_id = event_id,
                            !.updates = updates]
             ELSE [@ EXCEPT !.pc = "loaded", !.event_id = event_id,
                            !.updates = updates, !.loaded = found]]
    /\ UNCHANGED <<events, calendars, calendar_list, next_id, steps, last,
                   reminders, rec_vars, acl_vars, sched_vars, env>>

\* the query for the rows with the same iCalUID (with autoflush the UPDATE
\* of the addressed row goes out first and takes the row's lock), and the
\* second setattr loop
QueryCopies(t) ==
    /\ txs[t].pc = "loaded"
    /\ ~locked_by_other(t, autoflushed(txs[t]))
    /\ LET row == CHOOSE r \in txs[t].loaded : TRUE
       IN txs' = [txs EXCEPT ![t] =
             [@ EXCEPT !.pc = "queried",
                       !.locked = autoflushed(txs[t]),
                       !.loaded = @ \cup all_event_copies(events, row.iCalUID,
                                                          row.id)]]
    /\ UNCHANGED <<events, calendars, calendar_list, next_id, steps, last,
                   reminders, rec_vars, acl_vars, sched_vars, env>>

\* db.commit(): the UPDATEs of the dirty rows and the COMMIT
Commit(t) ==
    /\ txs[t].pc = "queried"
    /\ ~locked_by_other(t, dirty(txs[t]))
    /\ events' = {IF r.id \in dirty(txs[t]) THEN flush_row(r, txs[t]) ELSE r :
                     r \in events}
    /\ txs' = [txs EXCEPT ![t] = [@ EXCEPT !.pc = "committed", !.locked = {}]]
    /\ UNCHANGED <<calendars, calendar_list, next_id, steps, last,
                   reminders, rec_vars, acl_vars, sched_vars, env>>

\* a session that waits for a row lock is ended by the database (deadlock
\* or lock timeout); the call raises and its UPDATEs are rolled back
Abort(t) ==
    /\ \/ txs[t].pc = "loaded" /\ locked_by_other(t, autoflushed(txs[t]))
       \/ txs[t].pc = "queried" /\ locked_by_other(t, dirty(txs[t]))
    /\ txs' = [txs EXCEPT ![t] = [@ EXCEPT !.pc = "aborted", !.locked = {}]]
    /\ UNCHANGED <<events, calendars, calendar_list, next_id, steps, last,
                   reminders, rec_vars, acl_vars, sched_vars, env>>

\* updates maps of the two calls: the summary the rows have, and two others
ConcurrentUpdates ==
    {[summary |-> "s1"], [summary |-> "s2"], [summary |-> "s3"]}

\* one event of "o" with attendee "a" has been created: two rows with one
\* iCalUID; the sessions are made with autoflush on or off
InitConcurrent ==
    /\ LET res == create_event(
                     DB({}, {[id |-> 1, owner_id |-> "o"]},
                        <<[user_id |-> "o", calendar_id |-> 1,
                           is_primary |-> TRUE]>>),
                     1, 1, "o", PayloadMin, <<"a">>)
       IN /\ events = res.db.events
          /\ calendars = res.db.calendars
          /\ calendar_list = res.db.calendar_list
          /\ next_id = res.next_id
    /\ steps = 0
    /\ last = NoCall
    /\ reminders = {}
    /\ rec_in = NoExpansion
    /\ rec_out = NoResult
    /\ acl = {}
    /\ acl_out = NoEvaluation
    /\ now = 0
    /\ jobs = {}
    /\ pool = EmptyBag
    /\ notification_log = <<>>
    /\ thread = Idle
    /\ alive = TRUE
    /\ failures = <<>>
    /\ \E b \in BOOLEAN :
          txs = [t \in Transactions |-> [NoTransaction EXCEPT !.autoflush = b]]
    /\ env = NoEpisode

NextConcurrent ==
    \/ \E t \in Transactions, e \in EventIds, u \in ConcurrentUpdates :
          BeginUpdate(t, e, u)
    \/ \E t \in Transactions : QueryCopies(t)
    \/ \E t \in Transactions : Commit(t)
    \/ \E t \in Transactions : Abort(t)

SpecConcurrent == InitConcurrent /\ [][NextConcurrent]_vars

----------------------------------------------------------------------------
(* The gym environment (backend/app/gym/google_calendar_env.py) *)

\* self.max_steps: the length of an episode (the tests set it after reset())
max_steps == 3

\* params.get("event_id") or params.get("calendar_id") when the key is
\* absent: "if not event_id" is taken
MissingId == 0
\* an id that UUID(...) does not accept
MalformedId == 0 - 1

\* what an _action_* method hands back to step: the float it returns, the
\* info["success"] it leaves, or the exception it lets through
Returned(reward, success, message) ==
    [reward |-> reward, success |-> success, message |-> message,
     raised |-> FALSE, flush_failed |-> FALSE]
Raised(message, flush_failed) ==
    [reward |-> 0, success |-> FALSE, message |-> message, raised |-> TRUE,
     flush_failed |-> flush_failed]

\* a query on self.db after a flush has failed and nobody called rollback():
\* the session raises PendingRollbackError
pending_rollback(en) == en.session = "inactive"
PendingRollback == Raised("PendingRollbackError", FALSE)

\* the Event rows of the conflict query: same calendar, overlapping interval
conflicts(ev, calendar_id, start_time, end_time) ==
    {r \in ev : r.calendar_id = calendar_id /\ r.start < end_time
                /\ r.end > start_time}

Unchanged(out, db, fresh) == [out |-> out, db |-> db, next_id |-> fresh]

\* _action_create_event(params, info); datetime.now() is instant 0
action_create_event(en, db, fresh, organizer_email, calendar_id, summary, start_offset_hours, attendees) ==
    LET start_time == start_offset_hours
        end_time   == start_time + 1
        payload    == [summary |-> summary, start |-> start_time,
                       end |-> end_time]
        res == create_event(db, fresh, calendar_id, organizer_email, payload,
                            attendees)
    IN IF organizer_email = "" \/ calendar_id = MissingId
       THEN Unchanged(Returned(0, FALSE, "Missing organizer_email or calendar_id"), db, fresh)
       ELSE IF calendar_id = MalformedId
       THEN Unchanged(Returned(0, FALSE, "Invalid calendar_id format"), db, fresh)
       ELSE IF pending_rollback(en)
       THEN Unchanged(PendingRollback, db, fresh)
       ELSE IF ~\E c \in db.calendars : c.id = calendar_id
       THEN Unchanged(Returned(0, FALSE, "Calendar not found"), db, fresh)
       ELSE IF conflicts(db.events, calendar_id, start_time, end_time) # {}
       THEN Unchanged(Returned(0, FALSE, "Time conflict detected"), db, fresh)
       ELSE IF res.ok
       THEN [out |-> Returned(1, TRUE, "created"), db |-> res.db,
             next_id |-> res.next_id]
       ELSE [out |-> Raised(res.err, TRUE), db |-> res.db,
             next_id |-> res.next_id]

\* _action_update_event(params, info): update_event fails inside
\* db.commit(), which rolls the session back before it re-raises
action_update_event(en, ev, event_id, updates) ==
    LET res == update_event(ev, event_id, updates)
    IN IF event_id = MissingId
       THEN [out |-> Returned(0, FALSE, "Missing event_id"), events |-> ev]
       ELSE IF event_id = MalformedId
       THEN [out |-> Returned(0, FALSE, "Invalid event_id format"), events |-> ev]
       ELSE IF pending_rollback(en)
       THEN [out |-> PendingRollback, events |-> ev]
       ELSE IF EventById(ev, event_id) = {}
       THEN [out |-> Returned(0, FALSE, "Event not found"), events |-> ev]
       ELSE IF res.ok
       THEN [out |-> Returned(1, TRUE, "updated"), events |-> res.events]
       ELSE [out |-> Raised(res.err, FALSE), events |-> res.events]

\* _action_delete_event(params, info)
action_delete_event(en, ev, event_id) ==
    IF event_id = MissingId
    THEN [out |-> Returned(0, FALSE, "Missing event_id"), events |-> ev]
    ELSE IF event_id = MalformedId
    THEN [out |-> Returned(0, FALSE, "Invalid event_id format"), events |-> ev]
    ELSE IF pending_rollback(en)
    THEN [out |-> PendingRollback, events |-> ev]
    ELSE IF EventById(ev, event_id) = {}
    THEN [out |-> Returned(0, FALSE, "Event not found"), events |-> ev]
    ELSE [out |-> Returned(1, TRUE, "deleted"),
          events |-> delete_event(ev, event_id)]

\* _action_accept_invitation and _action_decline_invitation, which differ in
\* the response_status they pass on
action_respond(en, ev, event_id, attendee_email, response_status) ==
    LET res == update_attendee_response(ev, event_id, attendee_email,
                                        response_status)
    IN IF event_id = MissingId \/ attendee_email = ""
       THEN [out |-> Returned(0, FALSE, "Missing event_id or attendee_email"), events |-> ev]
       ELSE IF event_id = MalformedId
       THEN [out |-> Returned(0, FALSE, "Invalid event_id format"), events |-> ev]
       ELSE IF pending_rollback(en)
       THEN [out |-> PendingRollback, events |-> ev]
       ELSE IF EventById(ev, event_id) = {}
       THEN [out |-> Returned(0, FALSE, "Event not found"), events |-> ev]
       ELSE IF \A r \in EventById(ev, event_id) : attendee_record(r, attendee_email) = 0
       THEN [out |-> Returned(0, FALSE, "Attendee not found on this event"), events |-> ev]
       ELSE IF res.ok
       THEN [out |-> Returned(1, TRUE, "responded"), events |-> res.events]
       ELSE [out |-> Raised(res.err, FALSE), events |-> res.events]

\* _action_share_calendar(params, info) up to its return value
action_share_outcome(en, cals, rows, cl, calendar_id, grantee_email, role) ==
    LET res == action_share_calendar(cals, rows, cl, calendar_id,
                                     grantee_email, role)
    IN IF calendar_id = MissingId \/ grantee_email = ""
       THEN [out |-> Returned(0, FALSE, "Missing calendar_id or grantee_email"), acl |-> rows]
       ELSE IF calendar_id = MalformedId
       THEN [out |-> Returned(0, FALSE, "Invalid calendar_id format"), acl |-> rows]
       ELSE IF pending_rollback(en)
       THEN [out |-> PendingRollback, acl |-> rows]
       ELSE IF res.err # ""
       THEN [out |-> Returned(0, FALSE, res.err), acl |-> rows]
       ELSE [out |-> Returned(1, TRUE, "shared"), acl |-> res.acl]

\* _action_invite_user(params, info): a placeholder
action_invite_user == Returned(0, FALSE, "Invite user action not yet implemented")

\* the else branch of step's dispatch
unknown_action == Returned(0, FALSE, "Unknown action type")

\* "except Exception as e: reward = 0.0"
step_reward(out) == IF out.raised THEN 0 ELSE out.reward

\* step(action) around the dispatch: the counters it leaves in self, the
\* reward, done and info["success"] it computes, and whether it returns
\* them: _get_observation() queries self.db outside the try block
step(en, action_type, out) ==
    LET step_count == en.step_count + 1
        reward     == step_reward(out)
        session    == IF out.flush_failed THEN "inactive" ELSE en.session
    IN [step_count     |-> step_count,
        episode_reward |-> en.episode_reward + reward,
        reward         |-> reward,
        success        |-> out.success,
        done           |-> step_count >= max_steps,
        action         |-> action_type,
        returned       |-> session = "active",
        session        |-> session]

\* a step is taken between reset() and a little past the end of the episode
CanStep == env.session # "none" /\ env.step_count <= max_steps

\* reset(): the tables are dropped and created again, a new session is
\* opened, the counters are zeroed and the users and their primary
\* calendars are inserted
Reset ==
    /\ events' = {}
    /\ calendars' = {[id |-> 1, owner_id |-> "o"], [id |-> 2, owner_id |-> "a"]}
    /\ calendar_list' =
          <<[user_id |-> "o", calendar_id |-> 1, is_primary |-> TRUE],
            [user_id |-> "a", calendar_id |-> 2, is_primary |-> TRUE]>>
    /\ acl' = {}
    /\ reminders' = {}
    /\ next_id' = 1
    /\ env' = [NoEpisode EXCEPT !.action = "reset", !.session = "active",
                                !.returned = TRUE]
    /\ UNCHANGED <<steps, last, rec_vars, acl_out, sched_vars, txs>>

StepCreateEvent(organizer_email, calendar_id, summary, start_offset_hours, attendees) ==
    LET res == action_create_event(env, DB(events, calendars, calendar_list),
                                   next_id, organizer_email, calendar_id,
                                   summary, start_offset_hours, attendees)
    IN /\ CanStep
       /\ res.next_id <= MaxEvents + 1
       /\ events' = res.db.events
       /\ calendars' = res.db.calendars
       /\ calendar_list' = res.db.calendar_list
       /\ next_id' = res.next_id
       /\ env' = step(env, "create_event", res.out)
       /\ UNCHANGED <<steps, last, reminders, rec_vars, acl_vars, sched_vars, txs>>

StepUpdateEvent(event_id, updates) ==
    LET res == action_update_event(env, events, event_id, updates)
    IN /\ CanStep
       /\ events' = res.events
       /\ env' = step(env, "update_event", res.out)
       /\ UNCHANGED <<calendars, calendar_list, next_id, steps, last, reminders,
                   rec_vars, acl_vars, sched_vars, txs>>

StepDeleteEvent(event_id) ==
    LET res == action_delete_event(env, events, event_id)
    IN /\ CanStep
       /\ events' = res.events
       /\ reminders' = delete_cascade(reminders, events, events')
       /\ env' = step(env, "delete_event", res.out)
       /\ UNCHANGED <<calendars, calendar_list, next_id, steps, last, rec_vars,
                   acl_vars, sched_vars, txs>>

StepRespond(action_type, event_id, attendee_email) ==
    LET res == action_respond(env, events, event_id, attendee_email,
                              IF action_type = "accept" THEN ACCEPTED
                              ELSE DECLINED)
    IN /\ CanStep
       /\ events' = res.events
       /\ env' = step(env, action_type, res.out)
       /\ UNCHANGED <<calendars, calendar_list, next_id, steps, last, reminders,
                   rec_vars, acl_vars, sched_vars, txs>>

StepShareCalendar(calendar_id, grantee_email, role) ==
    LET res == action_share_outcome(env, calendars, acl, calendar_list,
                                    calendar_id, grantee_email, role)
    IN /\ CanStep
       /\ acl' = res.acl
       /\ env' = step(env, "share_calendar", res.out)
       /\ UNCHANGED <<events, calendars, calendar_list, next_id, steps, last,
                   reminders, rec_vars, acl_out, sched_vars, txs>>

StepInviteUser ==
    /\ CanStep
    /\ env' = step(env, "invite_user", action_invite_user)
    /\ UNCHANGED <<events, calendars, calendar_list, next_id, steps, last,
                   reminders, rec_vars, acl_vars, sched_vars, txs>>

StepUnknown ==
    /\ CanStep
    /\ env' = step(env, "unknown", unknown_action)
    /\ UNCHANGED <<events, calendars, calendar_list, next_id, steps, last,
                   reminders, rec_vars, acl_vars, sched_vars, txs>>

\* the ids an action may name: the rows there may be, a missing key, a
\* string that is no UUID
EnvCalendarIds == {1, 2, 3, MissingId, MalformedId}
EnvEventIds == EventIds \cup {MissingId, MalformedId}
\* params["summary"]: a string, or an explicit None
EnvSummaries == {"s1", Null}
\* params["start_offset_hours"]; duration_hours keeps its default of 1
EnvOffsets == {1, 2}
\* params["attendees"]: nobody, a user, the organizer, a user twice
EnvAttendees == {<<>>, <<"a">>, <<"o">>, <<"a", "a">>}
\* params["updates"]
EnvUpdates == {[summary |-> "s2"], [summary |-> Null]}
\* params["role"]
EnvRoles == {READER, "bogus"}

NextEnv ==
    \/ Reset
    \/ \E o \in {"o", ""}, c \in EnvCalendarIds, s \in EnvSummaries, h \in EnvOffsets, a \in EnvAttendees :
          StepCreateEvent(o, c, s, h, a)
    \/ \E e \in EnvEventIds, u \in EnvUpdates : StepUpdateEvent(e, u)
    \/ \E e \in EnvEventIds : StepDeleteEvent(e)
    \/ \E t \in {"accept", "decline"}, e \in EnvEventIds, m \in Emails \cup {""} :
          StepRespond(t, e, m)
    \/ \E c \in EnvCalendarIds, g \in Emails \cup {""}, r \in EnvRoles :
          StepShareCalendar(c, g, r)
    \/ StepInviteUser
    \/ StepUnknown

SpecEnv == Init /\ [][NextEnv]_vars

----------------------------------------------------------------------------
TypeOK ==
    /\ next_id \in 1..(MaxEvents + 1)
    /\ \A r \in events : r.id \in 1..(next_id - 1)

----------------------------------------------------------------------------
(* Properties of create_event *)

\* the rows carrying one iCalUID
Copies(ev, ical_uid) == {r \in ev : r.iCalUID = ical_uid}

\* the e-mail addresses on a row's roster
RosterEmails(r) == {r.attendees[i].email : i \in DOMAIN r.attendees}

\* the calendar of the first primary CalendarListEntry of a user, 0 when
\* the user has none
PrimaryCalendarOf(user_id) ==
    LET i == FirstIndex(calendar_list,
                 LAMBDA e : e.user_id = user_id /\ e.is_primary)
    IN IF i = 0 THEN 0 ELSE calendar_list[i].calendar_id

CreateSucceeded == last.op = "create" /\ last.ok

\* C1: after create(calendar_id, organizer_email, payload) succeeds, every
\* row with the new iCalUID has a roster whose set of e-mails is the organizer
\* plus the payload's attendees; exactly one entry is the organizer entry, it
\* carries the organizer's e-mail with is_organizer = true and accepted, and
\* every other entry has is_organizer = false and needsAction.
C1_RosterOnEveryCopy ==
    CreateSucceeded =>
        /\ Copies(events, last.iCalUID) # {}
        /\ \A r \in Copies(events, last.iCalUID) :
            /\ RosterEmails(r) = {last.organizer_email} \cup Range(last.attendees)
            /\ \E i \in DOMAIN r.attendees :
                /\ r.attendees[i] = [email |-> last.organizer_email,
                                     response_status |-> ACCEPTED,
                                     is_organizer |-> TRUE]
                /\ \A j \in DOMAIN r.attendees \ {i} :
                    /\ r.attendees[j].is_organizer = FALSE
                    /\ r.attendees[j].response_status = NEEDS_ACTION

\* a create with two attendees that left the organizer's row and a copy
C1_Witness ==
    /\ CreateSucceeded
    /\ Len(last.attendees) = 2
    /\ Cardinality(Copies(events, last.iCalUID)) >= 2

\* C2: after create succeeds the rows with the new iCalUID are one row in
\* calendar_id and one row in the primary calendar of each payload attendee
\* whose e-mail is a User's; an attendee whose e-mail is no User's owns no
\* calendar that holds a copy and is on the roster of every copy.
C2_CopiesExactlyForKnownUsers ==
    CreateSucceeded =>
        LET cs    == Copies(events, last.iCalUID)
            known == {i \in DOMAIN last.attendees : last.attendees[i] \in Users}
        IN /\ {r.calendar_id : r \in cs} =
                  {last.calendar_id} \cup
                  {PrimaryCalendarOf(last.attendees[i]) : i \in known}
           /\ \A r1, r2 \in cs : r1.calendar_id = r2.calendar_id => r1 = r2
           /\ Cardinality(cs) = 1 + Cardinality(known)
           /\ \A i \in DOMAIN last.attendees \ known :
                /\ \A r \in cs : last.attendees[i] \in RosterEmails(r)
                /\ ~\E r \in cs, c \in calendars :
                       c.id = r.calendar_id /\ c.owner_id = last.attendees[i]

\* a create with a known and an unknown attendee: two rows, the known
\* user's primary calendar was created on the way
C2_Witness ==
    /\ CreateSucceeded
    /\ last.attendees = <<"a", "x">>
    /\ Cardinality(Copies(events, last.iCalUID)) = 2
    /\ \E r \in Copies(events, last.iCalUID) :
          r.calendar_id = PrimaryCalendarOf("a")

\* C3: no two Event rows have the same calendar_id and the same non-null
\* iCalUID, whatever create payloads, updates, responses and deletions
\* produced the state.
C3_CalendarICalUIDUnique ==
    \A r1, r2 \in events :
        (r1.calendar_id = r2.calendar_id /\ r1.iCalUID = r2.iCalUID
            /\ r1.iCalUID # None) => r1 = r2

\* a create was refused by the unique index while another event has its
\* rows in two calendars
C3_Witness ==
    /\ last.op = "create" /\ ~last.ok /\ last.err = "unique"
    /\ \E r1, r2 \in events :
          r1 # r2 /\ r1.iCalUID = r2.iCalUID /\ r1.iCalUID # None

----------------------------------------------------------------------------
(* Properties of update_event and update_attendee_response *)

\* the row with an id, for an id that is there
RowOf(ev, event_id) == CHOOSE r \in ev : r.id = event_id

Exists(ev, event_id) == \E r \in ev : r.id = event_id

\* the statuses a row shows for an e-mail, in roster order
StatusesOf(r, email) ==
    LET sel == SelectSeq(r.attendees, LAMBDA a : a.email = email)
    IN [i \in DOMAIN sel |-> sel[i].response_status]

\* the status a lookup by (event, e-mail) returns
StatusOf(r, email) == StatusesOf(r, email)[1]

\* C4: all Event rows sharing one non-null iCalUID agree on summary,
\* description, start, end, location, status, is_all_day and recurrence, and
\* for every e-mail on the roster of two such rows both rows show the same
\* response status for it, whichever copy the calls were made on.
C4_CopiesAgree ==
    \A r1, r2 \in events :
        (r1.iCalUID = r2.iCalUID /\ r1.iCalUID # None) =>
            /\ \A f \in PropagatedFields : r1[f] = r2[f]
            /\ \A m \in RosterEmails(r1) \cap RosterEmails(r2) :
                  StatusesOf(r1, m) = StatusesOf(r2, m)

\* an attendee has answered on the copy in the attendee's own calendar
\* after the fields of the event were updated, and a sibling row exists
C4_Witness ==
    /\ last.op = "respond" /\ last.ok /\ last.email = "a"
    /\ \E r1, r2 \in events, c \in calendars :
          /\ r1.id = last.id /\ r1.calendar_id = c.id /\ c.owner_id = "a"
          /\ r2 # r1 /\ r2.iCalUID = r1.iCalUID
          /\ r2.summary = "s2"
          /\ StatusOf(r2, "a") = last.status

\* C5: update_attendee_response(event_copy_id, email, status) on a copy whose
\* roster contains email succeeds; afterwards every row sharing the copy's
\* iCalUID whose roster contains email shows status for email, and on every
\* row the entries of every other e-mail, the size of the roster and the set
\* of rows are unchanged.
C5_ResponsePropagates ==
    [][ (/\ last'.op = "respond"
         /\ Exists(events, last'.id)
         /\ RowOf(events, last'.id).iCalUID # None
         /\ last'.email \in RosterEmails(RowOf(events, last'.id)))
        =>
        (/\ last'.ok
         /\ \A r2 \in events' :
               (/\ r2.iCalUID = RowOf(events, last'.id).iCalUID
                /\ last'.email \in RosterEmails(r2))
               => StatusOf(r2, last'.email) = last'.status
         /\ {r.id : r \in events'} = {r.id : r \in events}
         /\ Cardinality(events') = Cardinality(events)
         /\ \A r \in events : \A r2 \in events' :
               r2.id = r.id =>
                  /\ Len(r2.attendees) = Len(r.attendees)
                  /\ \A i \in DOMAIN r.attendees :
                        r.attendees[i].email # last'.email
                            => r2.attendees[i] = r.attendees[i])
      ]_vars

\* the organizer's row shows the answer given on the attendee's own copy,
\* next to an entry of another e-mail
C5_Witness ==
    /\ last.op = "respond" /\ last.ok /\ last.email = "a"
    /\ \E r1, r2 \in events, c \in calendars :
          /\ r1.id = last.id /\ r1.calendar_id = c.id /\ c.owner_id = "a"
          /\ r2 # r1 /\ r2.iCalUID = r1.iCalUID
          /\ StatusOf(r2, "a") = last.status
          /\ "x" \in RosterEmails(r2)

\* C6: update is idempotent: in every state, for every event id and every
\* updates map, a second update_event with the same arguments returns as the
\* first did and leaves the rows as the first left them, and after a
\* successful update every copy holds the map's value for every applied key.
C6_UpdateIdempotent ==
    \A e \in EventIds, u \in UpdateMaps :
        LET once  == update_event(events, e, u)
            twice == update_event(once.events, e, u)
        IN /\ twice = once
           /\ once.ok =>
                \A r \in Copies(once.events, RowOf(events, e).iCalUID) :
                    \A k \in (DOMAIN u \cap DOMAIN r) \ ImmutableKeys :
                        r[k] = u[k]

\* an update of every field has just been applied to an event with two rows
C6_Witness ==
    /\ last.op = "update" /\ last.ok /\ last.updates = UpdateAll
    /\ Exists(events, last.id)
    /\ Cardinality(Copies(events, RowOf(events, last.id).iCalUID)) >= 2

\* C7: each of create, update and update_attendee_response is all-or-nothing:
\* a call that fails leaves no Event row and no EventAttendee row behind.
C7_AllOrNothing ==
    [][ ~last'.ok => events' = events ]_vars

\* C8: update and update_attendee_response fail, and change no row, when the
\* event id does not exist or the event has a null iCalUID.
C8_FailsWithoutIdentity ==
    [][ (/\ last'.op \in {"update", "respond"}
         /\ \/ ~Exists(events, last'.id)
            \/ RowOf(events, last'.id).iCalUID = None)
        =>
        (/\ ~last'.ok
         /\ last'.err = IF Exists(events, last'.id)
                        THEN "no iCalUID" ELSE "not found"
         /\ events' = events)
      ]_vars

\* an update was refused on a row that has no iCalUID
C8_Witness ==
    /\ last.op = "update" /\ ~last.ok /\ last.err = "no iCalUID"
    /\ Exists(events, last.id) /\ RowOf(events, last.id).iCalUID = None

\* C9: update_attendee_response fails and changes nothing when the e-mail is
\* not on the roster of the addressed copy, and in every case it leaves the
\* e-mails of every roster, entry by entry, as they were.
C9_ResponseNeverEditsRoster ==
    [][ last'.op = "respond" =>
        (/\ {r.id : r \in events'} = {r.id : r \in events}
         /\ \A r \in events : \A r2 \in events' :
               r2.id = r.id =>
                  /\ Len(r2.attendees) = Len(r.attendees)
                  /\ \A i \in DOMAIN r.attendees :
                        r2.attendees[i].email = r.attendees[i].email
         /\ (/\ Exists(events, last'.id)
             /\ last'.email \notin RosterEmails(RowOf(events, last'.id)))
            => (~last'.ok /\ events' = events))
      ]_vars

\* a response was refused for an e-mail that is not on the roster of a row
\* that has an iCalUID and a roster
C9_Witness ==
    /\ last.op = "respond" /\ ~last.ok /\ last.err = "attendee not found"
    /\ Exists(events, last.id)
    /\ RowOf(events, last.id).attendees # <<>>

\* C10: update never changes id, calendar_id, iCalUID or created_at of any
\* row, also when the updates map has those keys, and changes no row whose
\* iCalUID differs from the addressed event's.
C10_UpdateFrame ==
    [][ last'.op = "update" =>
        (/\ Cardinality(events') = Cardinality(events)
         /\ \A r \in events : \E r2 \in events' :
               /\ r2.id = r.id
               /\ r2.calendar_id = r.calendar_id
               /\ r2.iCalUID = r.iCalUID
               /\ r2.created_at = r.created_at
               /\ (Exists(events, last'.id)
                    /\ r.iCalUID # RowOf(events, last'.id).iCalUID) => r2 = r)
      ]_vars

\* an update whose map has the four immutable keys was applied while a row
\* of another event is stored
C10_Witness ==
    /\ last.op = "update" /\ last.ok
    /\ ImmutableKeys \subseteq DOMAIN last.updates
    /\ \E r1, r2 \in events :
          r1.id = last.id /\ r2.iCalUID # r1.iCalUID /\ r1.status = CANCELLED

----------------------------------------------------------------------------
(* Properties of delete *)

\* C11: deleting one copy removes that Event row with its own attendee and
\* reminder rows and nothing else: every sibling row of the same iCalUID,
\* its roster and its reminders are as before; and an update or a response
\* that succeeds on a remaining copy reaches every remaining copy
C11_DeleteIsLocal ==
    [][ /\ last'.op = "delete" =>
            /\ \E d \in events : d.id = last'.id
            /\ events' = {r \in events : r.id # last'.id}
            /\ reminders' = {m \in reminders : m.event_id # last'.id}
        /\ (last'.op = "update" /\ last'.ok) =>
            \A r \in events' :
                r.iCalUID = RowOf(events', last'.id).iCalUID =>
                \A k \in DOMAIN last'.updates \cap PropagatedFields :
                    r[k] = last'.updates[k]
        /\ (last'.op = "respond" /\ last'.ok) =>
            \A r \in events' :
                (/\ r.iCalUID = RowOf(events', last'.id).iCalUID
                 /\ last'.email \in RosterEmails(r)) =>
                StatusOf(r, last'.email) = last'.status
      ]_vars

\* one create made three copies, one of them was deleted, and an update on
\* a remaining copy has reached both remaining copies
C11_Witness ==
    /\ last.op = "update" /\ last.ok
    /\ next_id = 4
    /\ Cardinality(events) = 2
    /\ \A r \in events : r.iCalUID = 1 /\ r.summary = "s2"

----------------------------------------------------------------------------
(* Properties of start and end *)

\* C12: every stored Event satisfies end > start in every state reachable
\* by event creation and update, through the endpoints and the service
C12_EndAfterStart ==
    \A r \in events : r.end > r.start

\* the endpoints alone keep it: a POST or PATCH step never stores a row
\* with end <= start unless the row was stored that way before
C12_EndpointsValidate ==
    [][ last'.op \in {"http_create", "http_update"} =>
          \A r \in events' : r.end <= r.start => r \in events ]_vars

----------------------------------------------------------------------------
(* Properties of the recurrence expander *)

\* what the lines of a recurrence field say, read off the directive format:
\* the rule lines (neither blank nor prefixed EXDATE: or RDATE:), and the
\* instants listed on the EXDATE and on the RDATE lines
RuleLines(field) ==
    {i \in DOMAIN field :
        field[i] # BlankLine /\ field[i].prefix \notin {"EXDATE:", "RDATE:"}}

Instants(dates) ==
    {IF dates[i].form = "date" THEN dates[i].at * Day ELSE dates[i].at :
        i \in {j \in DOMAIN dates : dates[j].form # "junk"}}

ExDateInstants(field) ==
    UNION {Instants(field[i].dates) :
              i \in {j \in DOMAIN field : field[j].prefix = "EXDATE:"}}

RDateInstants(field) ==
    UNION {Instants(field[i].dates) :
              i \in {j \in DOMAIN field : field[j].prefix = "RDATE:"}}

\* a rule text of the supported grammar: FREQ is required
WellFormed(rule) ==
    rule.freq = "DAILY" /\ rule.interval >= 1 /\ rule.count >= 1

MalformedLines(field) == {i \in RuleLines(field) : ~WellFormed(field[i].rule)}

\* the occurrences of the RRULE of a field with at most one rule line
RRuleInstants(field, anchor) ==
    UNION {{anchor + k * field[i].rule.interval * Day :
               k \in 0..(field[i].rule.count - 1)} : i \in RuleLines(field)}

Expanded == rec_in.op = "expand"

\* C13: every instant expand_recurrence returns lies in
\* [window_start, window_end], both ends included, whatever the anchor, the
\* directives, the window and max_instances
C13_WindowContainment ==
    (Expanded /\ rec_out.raises = "") =>
        \A i \in DOMAIN rec_out.value :
            /\ rec_in.window_start <= rec_out.value[i]
            /\ rec_out.value[i] <= rec_in.window_end

\* a non-empty result although an RRULE occurrence lies in the one-day
\* margin outside the window and an RDATE instant lies outside the window
C13_Witness ==
    /\ Expanded /\ rec_out.raises = "" /\ rec_out.value # <<>>
    /\ MalformedLines(rec_in.recurrence_field) = {}
    /\ \E t \in RRuleInstants(rec_in.recurrence_field, rec_in.event_start) :
          /\ ~(rec_in.window_start <= t /\ t <= rec_in.window_end)
          /\ rec_in.window_start - Day <= t /\ t <= rec_in.window_end + Day
    /\ \E t \in RDateInstants(rec_in.recurrence_field) :
          ~(rec_in.window_start <= t /\ t <= rec_in.window_end)

\* the raw hits of the RRULE: its occurrences in the window extended by one
\* day on both sides
RawHits ==
    {t \in RRuleInstants(rec_in.recurrence_field, rec_in.event_start) :
        rec_in.window_start - Day <= t /\ t <= rec_in.window_end + Day}

\* the instants the directives denote in the window
ExpectedOccurrences ==
    {t \in (RRuleInstants(rec_in.recurrence_field, rec_in.event_start)
               \cup RDateInstants(rec_in.recurrence_field))
            \ ExDateInstants(rec_in.recurrence_field) :
        rec_in.window_start <= t /\ t <= rec_in.window_end}

\* C14: when the RRULE yields at most max_instances hits, the result is the
\* strictly ascending list of exactly the instants of the window that are
\* an RRULE occurrence or an RDATE instant and are not an EXDATE instant
C14_SetAlgebra ==
    (/\ Expanded
     /\ rec_in.recurrence_field # <<>>
     /\ Cardinality(RuleLines(rec_in.recurrence_field)) <= 1
     /\ MalformedLines(rec_in.recurrence_field) = {}
     /\ Cardinality(RawHits) <= rec_in.max_instances) =>
        /\ rec_out.raises = ""
        /\ Range(rec_out.value) = ExpectedOccurrences
        /\ \A i, j \in DOMAIN rec_out.value :
              i < j => rec_out.value[i] < rec_out.value[j]

\* a rule, an RDATE and an EXDATE line together: one instant comes from the
\* rule and from the RDATE and is listed once, another is in RDATE and in
\* EXDATE and is left out
C14_Witness ==
    /\ Expanded /\ rec_out.raises = ""
    /\ Cardinality(RuleLines(rec_in.recurrence_field)) = 1
    /\ MalformedLines(rec_in.recurrence_field) = {}
    /\ Cardinality(RawHits) <= rec_in.max_instances
    /\ \E t \in Range(rec_out.value) :
          /\ t \in RRuleInstants(rec_in.recurrence_field, rec_in.event_start)
          /\ t \in RDateInstants(rec_in.recurrence_field)
    /\ \E t \in RDateInstants(rec_in.recurrence_field)
                  \cap ExDateInstants(rec_in.recurrence_field) :
          /\ rec_in.window_start <= t /\ t <= rec_in.window_end
          /\ t \notin Range(rec_out.value)

\* C15: expand_recurrence raises ValueError whenever some rule line of the
\* directive list is a malformed RRULE, wherever that line stands and
\* whatever EXDATE and RDATE lines come with it
C15_MalformedRuleRaises ==
    (Expanded /\ MalformedLines(rec_in.recurrence_field) # {}) =>
        rec_out.raises = "ValueError"

\* what does hold: with a malformed rule line in any position the call
\* raises, it never returns a list
C15_NeverIgnored ==
    (Expanded /\ MalformedLines(rec_in.recurrence_field) # {}) =>
        rec_out.raises # ""

\* C16: when a calendar's events are listed with expansion for a window
\* and the RRULE of one of them is malformed, the listing fails
C16_ListingSurfacesParseError ==
    (/\ rec_in.op = "list"
     /\ \E r \in events :
           /\ r.calendar_id = rec_in.calendar_id
           /\ r.start <= rec_in.window_end /\ r.end >= rec_in.window_start
           /\ MalformedLines(r.recurrence) # {}) =>
        rec_out.raises # ""

----------------------------------------------------------------------------
(* Properties of the access-control check *)

\* the levels of the role hierarchy
Level(role) ==
    CASE role = FREE_BUSY_READER -> 1
      [] role = READER -> 2
      [] role = WRITER -> 3
      [] role = OWNER -> 4

Checked == acl_out.op = "check_permission"
RoleAsked == acl_out.op = "get_user_role"

\* the calendar of the evaluation exists and the subject owns it
SubjectOwns ==
    \E c \in calendars : c.id = acl_out.calendar_id /\ c.owner_id = acl_out.user_id

\* the ACL rows of the calendar of the evaluation for the subject's e-mail
SubjectRows ==
    {a \in acl : a.calendar_id = acl_out.calendar_id /\ a.grantee = acl_out.user_id}

\* C17: for a subject who is not the owner and whose e-mail has an ACL row
\* with role r on the calendar, check_permission is true exactly when
\* level(r) >= level(required)
C17_HierarchyDecides ==
    (/\ Checked
     /\ acl_out.user_id \in Users
     /\ \E c \in calendars : c.id = acl_out.calendar_id
     /\ ~SubjectOwns
     /\ SubjectRows # {}) =>
        \A a \in SubjectRows :
            acl_out.allowed <=> (Level(a.role) >= Level(acl_out.required_role))

\* a writer grant was checked against reader and passed
C17_Witness ==
    /\ Checked /\ ~SubjectOwns /\ acl_out.user_id \in Users
    /\ \E a \in SubjectRows : a.role = WRITER
    /\ acl_out.required_role = READER
    /\ acl_out.allowed

\* C18: without ownership and without an ACL row for the subject's e-mail,
\* and likewise for a calendar or a subject that does not exist,
\* check_permission is false for every required role and get_user_role is
\* None
C18_NoAccessDefault ==
    (/\ Checked \/ RoleAsked
     /\ ~SubjectOwns
     /\ \/ ~\E c \in calendars : c.id = acl_out.calendar_id
        \/ acl_out.user_id \notin Users
        \/ SubjectRows = {}) =>
        /\ Checked => ~acl_out.allowed
        /\ RoleAsked => acl_out.role = NoRole

\* freeBusyReader was asked for a user with no row on the calendar while
\* another grantee has one there, and it was denied
C18_Witness ==
    /\ Checked /\ ~SubjectOwns /\ acl_out.user_id \in Users
    /\ \E c \in calendars : c.id = acl_out.calendar_id
    /\ SubjectRows = {}
    /\ \E a \in acl : a.calendar_id = acl_out.calendar_id /\ a.role # OWNER
    /\ acl_out.required_role = FREE_BUSY_READER
    /\ ~acl_out.allowed

\* C19: the owner of the calendar passes every check and has role owner,
\* whatever ACL rows the calendar has
C19_OwnerAlways ==
    ((Checked \/ RoleAsked) /\ SubjectOwns) =>
        /\ Checked => acl_out.allowed
        /\ RoleAsked => acl_out.role = OWNER

\* the owner passed the check for owner although the ACL row for the
\* owner's e-mail grants less
C19_Witness ==
    /\ Checked /\ SubjectOwns
    /\ acl_out.required_role = OWNER
    /\ \E a \in SubjectRows : a.role \in {READER, FREE_BUSY_READER}
    /\ acl_out.allowed

\* every set of ACL rows calendar A can have: per grantee no row or one
\* row with some role
ACLVariants(A) ==
    {{[calendar_id |-> A, grantee |-> g, role |-> f[g]] :
         g \in {e \in Emails : f[e] # NoRole}} :
        f \in [Emails -> CalendarRole \cup {NoRole}]}

\* the database with the ACL rows and the owner of calendar A replaced
WithCalendar(A, rows, owner) ==
    ACLDB({c \in calendars : c.id # A} \cup {[id |-> A, owner_id |-> owner]},
          {a \in acl : a.calendar_id # A} \cup rows)

\* C20: the result of an evaluation for calendar B is the same in every
\* state that differs from the current one only in the ACL rows and the
\* owner of another calendar A
C20_PerCalendar ==
    (Checked \/ RoleAsked) =>
        \A A \in CalendarIds \ {acl_out.calendar_id} :
            \A rows \in ACLVariants(A), owner \in Users :
                /\ Checked =>
                      check_permission(WithCalendar(A, rows, owner),
                                       acl_out.user_id, acl_out.calendar_id,
                                       acl_out.required_role) = acl_out.allowed
                /\ RoleAsked =>
                      get_user_role(WithCalendar(A, rows, owner),
                                    acl_out.user_id, acl_out.calendar_id)
                          = acl_out.role

\* a user who owns one calendar and holds a grant there was denied on
\* another calendar
C20_Witness ==
    /\ Checked /\ ~acl_out.allowed
    /\ acl_out.user_id \in Users
    /\ \E c \in calendars : c.id = acl_out.calendar_id
    /\ \E a \in acl : /\ a.grantee = acl_out.user_id
                       /\ a.calendar_id # acl_out.calendar_id

----------------------------------------------------------------------------
(* Properties of sharing *)

ShareCalls == {"share_calendar", "action_share_calendar"}

\* the step is a share call
ShareStep == last'.op \in ShareCalls

\* C21: a share for a grantee that already has an ACL row on the calendar
\* fails (with the conflict, for every grantee the entry point accepts) and
\* leaves the ACL rows and the calendar-list entries as they were; and in
\* every reachable state there is at most one ACL row per (calendar, grantee)
C21_DuplicateShareConflicts ==
    /\ [](\A r1, r2 \in acl :
             (r1.calendar_id = r2.calendar_id /\ r1.grantee = r2.grantee)
                => r1 = r2)
    /\ [][(/\ ShareStep
           /\ \E a \in acl : /\ a.calendar_id = last'.calendar_id
                             /\ a.grantee = last'.email)
             => /\ ~last'.ok
                /\ (last'.op = "share_calendar" \/ last'.email \in Users)
                      => last'.err = "conflict"
                /\ acl' = acl
                /\ calendar_list' = calendar_list]_vars

C21_Witness ==
    /\ last.op \in ShareCalls
    /\ last.err = "conflict"
    /\ \E a \in acl : /\ a.calendar_id = last.calendar_id
                      /\ a.grantee = last.email
                      /\ a.role # last.status
                      /\ a.role # OWNER
----------------------------------------------------------------------------
(* Properties of the reminder scheduler *)

\* the step inserts NotificationLog row n
Inserted(n) == notification_log' = Append(notification_log, n)

\* C22: no NotificationLog row is inserted for an event from a
\* calendar-default reminder while the event has a Reminder row
C22_OverrideExclusive ==
    [][\A n \in Range(notification_log') :
          (Inserted(n) /\ n.origin = "default")
             => event_reminders(reminders, n.event_id) = {}]_vars
\* the (event_id, method, minutes_before) key of a NotificationLog row
LogKey(n) == job_id(n.event_id, n.reminder_method, n.minutes_before)

\* C23: whatever was scheduled, and however often, the job store holds one
\* job at most for a key, and one reminder (a key and its fire time) has
\* one NotificationLog row at most
C23_OneJobOneLog ==
    /\ \A j1, j2 \in jobs : j1.id = j2.id => j1 = j2
    /\ \A i, k \in DOMAIN notification_log :
          (/\ LogKey(notification_log[i]) = LogKey(notification_log[k])
           /\ notification_log[i].scheduled_time =
                 notification_log[k].scheduled_time)
             => i = k
\* the call that was running returns without an error in this step
Returns(ops) ==
    /\ thread.pc # "idle"
    /\ thread'.pc = "idle"
    /\ thread'.op \in ops
    /\ thread'.err = ""

\* the event row of a call
EventOf(ev, event_id) == CHOOSE r \in EventById(ev, event_id) : TRUE

\* the reminders in force for the event: its Reminder rows, or without any
\* the default reminders of the calendar owner's list entry
Effective(event_id) ==
    IF \E m \in reminders : m.event_id = event_id
    THEN {[method |-> m.method, minutes_before |-> m.minutes_before] :
             m \in {x \in reminders : x.event_id = event_id}}
    ELSE {[method |-> d.method, minutes_before |-> d.minutes] :
             d \in UNION {Range(calendar_list[i].default_reminders) :
                            i \in {k \in DOMAIN calendar_list :
                                     calendar_list[k].user_id = "o"}}}

\* the fire time of a reminder of the event as the event is now
FireTime(event_id, r) == EventOf(events, event_id).start - r.minutes_before

\* C24: a reminder whose fire time is at or before the "now" of the
\* scheduling call gets no job and no NotificationLog row from that call,
\* and the call still returns without an error with a job for each of the
\* event's reminders that is still to come
C24_PastRemindersSkipped ==
    /\ [](/\ \A j \in jobs : j.run_date > j.read_now
          /\ \A n \in Range(notification_log) : n.scheduled_time > n.read_now)
    /\ [][Returns({"schedule_reminders"})
             => \A r \in Effective(thread.event_id) :
                   FireTime(thread.event_id, r) > now
                      => \E j \in jobs' :
                            /\ j.id = job_id(thread.event_id, r.method,
                                             r.minutes_before)
                            /\ j.run_date = FireTime(thread.event_id, r)]_vars

C24_Witness ==
    /\ thread.pc = "idle"
    /\ thread.op = "schedule_reminders"
    /\ thread.err = ""
    /\ EventById(events, thread.event_id) # {}
    /\ \E r \in Effective(thread.event_id) :
          /\ FireTime(thread.event_id, r) <= thread.read_now
          /\ ~\E j \in jobs :
                j.id = job_id(thread.event_id, r.method, r.minutes_before)
    /\ \E j \in jobs : /\ j.id[1] = thread.event_id
                       /\ j.read_now = thread.read_now
                       /\ thread.read_now > 0
\* the jobs of an event, and the jobs of every other event
JobsOf(js, event_id) == {j \in js : j.id[1] = event_id}
JobsOfOthers(js, event_id) == {j \in js : j.id[1] # event_id}

\* C25: a cancel_event_reminders call removes every job of the event and
\* no job of another event, and ends without an error (with no job of the
\* event stored it changes nothing)
C25_CancelRemovesAll ==
    [][(/\ thread.op = "cancel_event_reminders"
        /\ thread.pc # "idle"
        /\ thread' # thread)
          => /\ JobsOfOthers(jobs', thread.event_id) =
                   JobsOfOthers(jobs, thread.event_id)
             /\ JobsOf(jobs, thread.event_id) = {} => jobs' = jobs
             /\ thread'.pc = "idle"
                   => /\ thread'.err = ""
                      /\ JobsOf(jobs', thread.event_id) = {}]_vars

C27_UpdateReschedules ==
    [][(/\ steps' = steps + 1
        /\ last'.op \in {"update", "http_update"}
        /\ last'.ok)
          => \A j \in jobs' : \A r \in events' :
                j.id[1] = r.id => j.run_date = r.start - j.id[3]]_vars
\* jobs are due, or handed to the executor and not yet run
Outstanding == due(jobs, now) # {} \/ pool # EmptyBag

\* C28: a NotificationLog insert that failed leaves the scheduler running,
\* and whatever is due or handed to the executor after it is fired and run
C28_SchedulerSurvives ==
    /\ [](failures # <<>> => alive)
    /\ (failures # <<>> /\ Outstanding) ~> ~Outstanding

\* a job scheduled after a failed insert has fired and has its row
C28_Witness ==
    \E f \in DOMAIN failures, i \in DOMAIN notification_log :
        /\ notification_log[i].read_now >= failures[f].at
        /\ notification_log[i].sent_time > failures[f].at
\* C29: every NotificationLog row stays as it was inserted
C29_AppendOnly ==
    [][/\ Len(notification_log') >= Len(notification_log)
       /\ \A i \in DOMAIN notification_log :
             notification_log'[i] = notification_log[i]]_vars
----------------------------------------------------------------------------
(* Properties of the calendar list *)

\* C30: every user has one CalendarListEntry with is_primary=true at most
C30_OnePrimaryPerUser ==
    \A u \in Users :
        Cardinality({i \in DOMAIN calendar_list :
                        /\ calendar_list[i].user_id = u
                        /\ calendar_list[i].is_primary}) <= 1
----------------------------------------------------------------------------
(* Properties of get_event_reminders *)

\* the (method, minutes_before) pairs of a set of reminders
Pairs(rs) == {[method |-> r.method, minutes_before |-> r.minutes_before] : r \in rs}

\* the Reminder rows of an event as pairs
OwnRows(rem, event_id) == Pairs({m \in rem : m.event_id = event_id})

\* the default_reminders list of the CalendarListEntry for (the event's
\* calendar, that calendar's owner) as pairs; empty without such a list
OwnerDefaults(event) ==
    {[method |-> IF "method" \in DOMAIN d THEN d.method ELSE "popup",
      minutes_before |-> IF "minutes" \in DOMAIN d THEN d.minutes ELSE 30] :
        d \in UNION {Range(calendar_list[i].default_reminders) :
                       i \in {k \in DOMAIN calendar_list :
                          /\ calendar_list[k].calendar_id = event.calendar_id
                          /\ \E c \in calendars :
                                /\ c.id = event.calendar_id
                                /\ c.owner_id = calendar_list[k].user_id
                          /\ "default_reminders" \in DOMAIN calendar_list[k]}}}

\* the effective reminders of an event under Reminder rows rem
EffectiveSet(rem, event) ==
    IF OwnRows(rem, event.id) # {} THEN OwnRows(rem, event.id)
    ELSE OwnerDefaults(event)

\* C31: get_event_reminders returns the event's own Reminder rows when it
\* has any, otherwise the default_reminders of the list entry of the
\* calendar's owner, otherwise nothing; the entries of one result all come
\* from the same source; and once set_event_reminders(event, []) has gone
\* through, the effective reminders of the event are the calendar defaults
C31_EffectiveReminders ==
    /\ [][(thread'.op = "get_event_reminders" /\ thread' # thread)
            => LET event == EventOf(events, thread'.event_id)
               IN /\ Pairs(thread'.todo) = EffectiveSet(reminders, event)
                  /\ \A r \in thread'.todo :
                        r.origin = IF OwnRows(reminders, event.id) # {}
                                   THEN "event" ELSE "default"]_vars
    /\ [][(/\ last'.op = "set_reminders" /\ last'.ok /\ steps' = steps + 1
           /\ OwnRows(reminders', last'.id) = {})
            => LET event == EventOf(events, last'.id)
               IN /\ Pairs(get_event_reminders(reminders', calendars,
                                               calendar_list, event))
                        = OwnerDefaults(event)
                  /\ \A j \in JobsOf(jobs', event.id) :
                        [method |-> j.id[2], minutes_before |-> j.id[3]]
                           \in OwnerDefaults(event)]_vars

\* an event whose rows were cleared is back on defaults that differ from
\* the guest's entry, and get_event_reminders has returned them
C31_Witness ==
    /\ thread.op = "get_event_reminders"
    /\ last.op = "set_reminders" /\ last.ok /\ last.id = thread.event_id
    /\ steps >= 2
    /\ OwnRows(reminders, thread.event_id) = {}
    /\ Pairs(thread.todo) = {[method |-> EMAIL, minutes_before |-> 30]}
    /\ \E i \in DOMAIN calendar_list :
          /\ calendar_list[i].calendar_id = 1
          /\ calendar_list[i].default_reminders = DefaultsTwo
----------------------------------------------------------------------------
(* Properties of the attendee endpoints *)

\* the roster has an organizer's entry
HasOrganizerEntry(row) == \E i \in DOMAIN row.attendees : row.attendees[i].is_organizer

\* the status of the attendee row that PATCH .../respond addresses
AddressedStatus(ev, event_id, email) ==
    LET row == EventOf(ev, event_id)
    IN row.attendees[FirstIndex(row.attendees, LAMBDA a : a.email = email)].response_status

\* C32: a respond call that changes an attendee's status on an event with an
\* organizer in its roster appends one NotificationLog row, for the event,
\* naming the attendee, the new status and the summary; a respond call that
\* leaves the status as it was appends none
C32_ResponseNotifiesOrganizer ==
    [][(/\ last'.op = "http_respond" /\ last'.ok /\ steps' = steps + 1
        /\ HasOrganizerEntry(EventOf(events, last'.id)))
          => IF AddressedStatus(events', last'.id, last'.email) #
                AddressedStatus(events, last'.id, last'.email)
             THEN /\ Len(notification_log') = Len(notification_log) + 1
                  /\ LET n == notification_log'[Len(notification_log')]
                     IN /\ n.event_id = last'.id
                        /\ n.message =
                              <<last'.email,
                                AddressedStatus(events', last'.id, last'.email),
                                EventOf(events, last'.id).summary>>
             ELSE notification_log' = notification_log]_vars
----------------------------------------------------------------------------
(* Properties of update_event with an attendee list *)

\* the roster of each row, by row id
Rosters(ev) == {<<r.id, r.attendees>> : r \in ev}

\* C33: an update call whose map has the attendees key on an event with an
\* iCalUID raises nothing, leaves the roster of every row as it was, and
\* sets the other keys of the map on every row with the event's iCalUID
C33_AttendeesKeyIgnored ==
    [][(last'.op = "update" /\ steps' = steps + 1)
          => /\ last'.err # "setattr"
             /\ (last'.ok /\ "attendees" \in DOMAIN last'.updates)
                   => /\ Rosters(events') = Rosters(events)
                      /\ \A r \in events' :
                            r.iCalUID = EventOf(events, last'.id).iCalUID
                               => \A k \in (DOMAIN last'.updates \cap
                                               PropagatedFields) :
                                     r[k] = last'.updates[k]]_vars
----------------------------------------------------------------------------
(* Properties of PATCH /events/{event_id} *)

\* C34: after a PATCH that went through on an event with an iCalUID, every
\* row with that iCalUID has the value of the request for each field of the
\* request
C34_PatchPropagates ==
    [][(/\ last'.op = "http_update" /\ last'.ok /\ steps' = steps + 1
        /\ EventOf(events, last'.id).iCalUID # None)
          => \A r \in events' :
                r.iCalUID = EventOf(events, last'.id).iCalUID
                   => \A k \in DOMAIN last'.updates :
                         r[k] = last'.updates[k]]_vars
----------------------------------------------------------------------------
(* Properties of the cap on expanded occurrences *)

\* C35: a list returned by expand_recurrence has max_instances entries at
\* most
C35_AtMostMaxInstances ==
    (rec_in.op = "expand" /\ rec_out.raises = "")
        => Len(rec_out.value) <= rec_in.max_instances
----------------------------------------------------------------------------
(* Properties of update calls that run at the same time *)

\* the two calls have committed, on rows of one iCalUID, with different
\* values for the same keys
BothCommitted ==
    /\ \A t \in Transactions : txs[t].pc = "committed"
    /\ \A t, u \in Transactions :
          t # u => /\ DOMAIN txs[t].updates = DOMAIN txs[u].updates
                   /\ \A k \in DOMAIN txs[t].updates :
                         txs[t].updates[k] # txs[u].updates[k]

\* C36: once both calls have committed, every row of the iCalUID has the
\* values of the call that would have run second in one of the two serial
\* orders; in particular the rows agree
C36_ConcurrentUpdatesSerial ==
    BothCommitted
       => \E t \in Transactions :
             \A r \in events :
                \A k \in DOMAIN txs[t].updates : r[k] = txs[t].updates[k]
----------------------------------------------------------------------------
(* Properties of the roster *)

\* C37: in the roster of every Event row an e-mail appears once at most,
\* whatever create and the invite endpoint were given
C37_RosterEmailsUnique ==
    \A r \in events :
        \A i, k \in DOMAIN r.attendees :
            r.attendees[i].email = r.attendees[k].email => i = k
----------------------------------------------------------------------------
(* Properties of reminders around the deletion of an event *)

\* C38: no job of a deleted event is stored, and none is waiting in the
\* executor for its send_notification to run
C38_DeleteCancelsJobs ==
    \A j \in jobs \cup BagToSet(pool) : EventById(events, j.id[1]) # {}

\* C39: a remove_job of cancel_event_reminders never raises, whatever has
\* fired since get_jobs(), and inside reschedule_reminders the call goes on
\* to schedule_reminders once the listed jobs are dealt with
C39_CancelSurvivesFiring ==
    [][(thread.pc = "cancel" /\ thread' # thread)
          => /\ thread'.err = ""
             /\ thread.then = "schedule"
                   => thread'.pc \in {"cancel", "schedule"}]_vars

----------------------------------------------------------------------------
(* Properties of the gym environment *)

\* C40: every step returns a binary reward, 1 exactly when info.success is
\* true and 0 for every invalid action, error, conflict or not-found case;
\* step_count grows by exactly one per step whatever the outcome;
\* episode_reward grows by one with every successful step and by nothing
\* otherwise, from 0 at reset, so that it counts the successful steps since
\* the last reset; done is true exactly when step_count >= max_steps
C40_BinaryReward ==
    [][ env' # env =>
          IF env'.action = "reset"
          THEN env'.step_count = 0 /\ env'.episode_reward = 0
          ELSE /\ env'.returned
               /\ env'.reward \in {0, 1}
               /\ (env'.reward = 1) <=> env'.success
               /\ env'.step_count = env.step_count + 1
               /\ env'.episode_reward =
                     env.episode_reward + (IF env'.success THEN 1 ELSE 0)
               /\ env'.done <=> (env'.step_count >= max_steps) ]_vars

====
